---------------------------- MODULE Spec2Model ----------------------------
(* A state-machine model of rosdep's data-source cache (sources_list.py)   *)
(* and of the jfrog source installer (platforms/jfrog.py).                 *)
(*                                                                         *)
(* Text is modelled at token level: a line is the sequence of the tokens   *)
(* obtained by splitting it at every single space, so two adjacent spaces  *)
(* give an empty token "" exactly as Python's str.split(' ') does; a file  *)
(* is the sequence of its newline-terminated lines.                        *)
EXTENDS Naturals, Sequences, FiniteSets, TLC

VARIABLES
    sources_list_dir,   \* the sources.list.d directory: [exists, files]
    cache_files,        \* cache entry files, by compute_filename_hash key
    cache_index,        \* the cache's 'index' file
    u_pc,               \* position of the running update_sources_list
    u_sources,          \* its local 'sources'
    u_i,                \* 1-based position of its loop over 'sources'
    u_retval,           \* its local 'retval'
    u_data,             \* rosdep_data being written by write_cache_file
    u_buf,              \* lines written to the index file object, flushed or not
    u_events,           \* handler calls and cache writes of this run, in order
    u_outcomes,         \* per source of this run: TRUE iff its fetch succeeded
    u_pre,              \* cache files, index and sources list as they were when this run began
    u_runs,             \* number of update_sources_list calls begun
    u_exc,              \* the exception the last update_sources_list raised, or "None"
    u_todo,             \* the sources list files parse_sources_list has yet to read
    r_pc,               \* position of a concurrent load_cached_sources_list
    r_loaded,           \* what that call has loaded so far, and what it returned
    r_todo,             \* the lines of the index it read that it has yet to go through
    l_made,             \* TRUE once SourcesListLoader.create_default has run
    l_matcher,          \* the tags of the matcher it was given
    l_sources,          \* the loader's 'sources'
    rosdep_db,          \* the RosdepDatabase: the views loaded, with their data
    l_call,             \* the loader's last call: what was asked, what came back
    l_calls,            \* number of calls made on the loader and the database
    m_pc,               \* DataSourceMatcher.matches: called yet or not
    m_source_tags,      \* tags of the source it is asked about
    m_tags,             \* the matcher's tags
    m_result,           \* what matches returned
    i_pc,               \* position of the installation of one JFrogInstall
    i_presence,         \* how its check-presence script ended, once it was run
    i_commands,         \* what get_install_command returned for it
    i_resolved,         \* the JFrogInstall it was given
    i_remote,           \* what the artifact repository serves for each URL
    i_filename,         \* its local 'filename'
    i_hash1,            \* its local 'hash1'
    i_hash2,            \* its local 'hash2'
    i_exc,              \* the exception it raised, or "None"
    i_failure,          \* the failure the InstallFailed it raised carries
    i_dirs,             \* the directories under the current directory
    i_files,            \* the files under the current directory, with their digests
    i_steps,            \* the steps it went through, in order
    x_remote,           \* what the repository holds for each manifest URL
    x_cache,            \* the JFrogInstaller's _rdmanifest_cache
    x_downloads,        \* the fetch_file calls made so far: URL, and what became of the download
    x_args,             \* the rosdep_args dict of the last call, as the call left it
    x_call,             \* the installer's last call: what was asked, what came back
    x_calls,            \* number of calls made on the installer
    x_pc,               \* position of the call that runs on the installer
    x_pending,          \* that call, while it is between its two fetches
    p_pc,               \* position of a parse_sources_list called on its own
    p_listing,          \* the names os.listdir gave it, in the order it gave them
    p_todo,             \* the files it has yet to read
    p_read,             \* the directory as it read it: each file as it was when opened
    p_result,           \* its local 'sources_list', and what it returned or raised
    web                 \* what the web serves at each URL, while that does not change

updVars == <<sources_list_dir, cache_files, cache_index, u_pc, u_sources, u_i,
             u_retval, u_data, u_buf, u_events, u_outcomes, u_pre, u_runs, u_exc, u_todo>>
rdrVars == <<r_pc, r_loaded, r_todo>>
ldrVars == <<l_made, l_matcher, l_sources, rosdep_db, l_call, l_calls>>
matVars == <<m_pc, m_source_tags, m_tags, m_result>>
insVars == <<i_pc, i_presence, i_commands, i_resolved, i_remote, i_filename, i_hash1, i_hash2, i_exc, i_failure,
             i_dirs, i_files, i_steps>>
resVars == <<x_remote, x_cache, x_downloads, x_args, x_call, x_calls, x_pc, x_pending>>
prsVars == <<p_pc, p_listing, p_todo, p_read, p_result>>
webVars == <<web>>

-----------------------------------------------------------------------------
(* Bounds of the model. *)

\* Most lines the files of the sources list directory hold together.
MaxLines == 2

\* Most calls of update_sources_list in one behaviour.
MaxUpdates == 2

\* Most calls on one SourcesListLoader and its database in one behaviour.
MaxCalls == 2

\* Most tags of the source DataSourceMatcher.matches is asked about.
MaxTags == 2

-----------------------------------------------------------------------------
(* The universe of strings the model draws from. *)

UrlA == "http://example.org/a.yaml"
UrlB == "http://example.org/b.yaml"
UrlNoPath == "http://example.org"

\* The first characters of a URL, as a file holds them when a block of the
\* text written to it ends inside the URL: up to inside the path when there is
\* one, else up to inside the scheme.
cut_url(url) ==
    IF url = UrlA THEN "http://example.org/a"
    ELSE IF url = UrlB THEN "http://example.org/b"
    ELSE "ht"

\* The first characters of the type or of a tag.
cut_tag(tag) ==
    IF tag = "yaml" THEN "ya"
    ELSE IF tag = "ubuntu" THEN "ubu" ELSE IF tag = "debian" THEN "deb" ELSE ""

TYPE_YAML == "yaml"
TYPE_GBPDISTRO == "gbpdistro"
VALID_TYPES == {TYPE_YAML, TYPE_GBPDISTRO}

SOURCES_LIST_DIR == "sources.list.d"
SOURCES_CACHE_DIR == "sources.cache"

\* Tokens whose first character is '#'.
HashTokens == {"#", "#c", "#autogenerated"}

startswith_hash(token) == token \in HashTokens

\* urlparse.urlparse on the strings of the model: scheme, netloc and path.
urlparse(url) ==
    CASE url = UrlA -> [scheme |-> "http", netloc |-> "example.org", path |-> "/a.yaml"]
      [] url = UrlB -> [scheme |-> "http", netloc |-> "example.org", path |-> "/b.yaml"]
      [] url = UrlNoPath -> [scheme |-> "http", netloc |-> "example.org", path |-> ""]
      [] url = cut_url(UrlA) -> [scheme |-> "http", netloc |-> "example.org", path |-> "/a"]
      [] url = cut_url(UrlB) -> [scheme |-> "http", netloc |-> "example.org", path |-> "/b"]
      [] OTHER -> [scheme |-> "", netloc |-> "", path |-> url]

\* Lines a sources list file may hold.
LineUniverse ==
    { <<"yaml", UrlA>>,
      <<"yaml", UrlB, "ubuntu">>,
      <<"gbpdistro", UrlB, "debian">>,
      <<"yaml", UrlA, "", "ubuntu">>,      \* two spaces before the tag
      <<"#c", "yaml", UrlB>>,              \* a comment
      <<"", "">>,                          \* a line of one space
      <<"yaml">>,                          \* fewer than two tokens
      <<"deb", UrlA>>,                     \* unknown type
      <<"yaml", UrlNoPath>> }              \* URL without a path

FileNames == {"10.list", "20.list"}

\* sorted() on the file names of the model.
SortedFileNames == <<"10.list", "20.list">>

\* A file of the directory that is not a '*.list' file.
OtherFileName == "README"

\* f.endswith('.list')
endswith_list(f) == f \in FileNames

\* The names of the model in the order of Python's string comparison.
NameOrder == <<"10.list", "20.list", "README">>

name_rank(f) == CHOOSE k \in 1..Len(NameOrder) : NameOrder[k] = f

\* What os.listdir may return for a directory that holds the files of
\* FileNames and OtherFileName: the names, in any order.
listdir(dir) ==
    IF ~dir.exists THEN {<<>>}
    ELSE {l \in [1..(Cardinality(FileNames) + 1) -> FileNames \cup {OtherFileName}] :
            \A j, k \in DOMAIN l : j # k => l[j] # l[k]}

\* A sorted() that leaves the list as it is.
sorted_as_listed(names) == names

\* sorted(filelist): by selection of the least name.
RECURSIVE sorted(_)
sorted(names) ==
    IF names = <<>> THEN <<>>
    ELSE LET m == CHOOSE k \in 1..Len(names) :
                      \A j \in 1..Len(names) : name_rank(names[k]) <= name_rank(names[j])
         IN  <<names[m]>> \o sorted(SubSeq(names, 1, m - 1) \o SubSeq(names, m + 1, Len(names)))

-----------------------------------------------------------------------------
(* Files. *)

NoFile == [exists |-> FALSE, text |-> <<>>]
File(text) == [exists |-> TRUE, text |-> text]

\* Values of rosdep data and the YAML text that carries them.
None == <<"None">>
Dict(name) == <<"dict", name>>
DictNames == {"d1", "d2"}
Dicts == {Dict(n) : n \in DictNames}
ListValue == <<"list">>

safe_dump(value) == <<"yaml">> \o value
BadYamlText == <<"yaml", "!scanner-error">>
EmptyText == <<>>

\* The first part of a dumped mapping, as a file holds it once the file object
\* has flushed a buffer and before it is closed: cut inside a key, which YAML
\* cannot scan, or cut at the end of a line, which is a mapping with the first
\* keys only.
CutInKeyText(value) == <<"yaml", "!cut-in-key">> \o value
CutAtLineText(value) == <<"yaml">> \o value \o <<"first-keys">>
PartialTexts(value) == {CutInKeyText(value), CutAtLineText(value)}

\* yaml.load / yaml.safe_load: the empty document loads as None.
yaml_load(text) ==
    IF text = EmptyText THEN [exc |-> "None", value |-> None]
    ELSE IF text[2] \in {"!scanner-error", "!cut-in-key"}
      THEN [exc |-> "YAMLError", value |-> None]
    ELSE [exc |-> "None", value |-> Tail(text)]

is_dict(value) == Len(value) > 0 /\ Head(value) = "dict"


-----------------------------------------------------------------------------
(* DataSource and the sources file format. *)

\* A DataSource that takes any type and any URL.
DataSource_unvalidated(type_, url, tags, origin) ==
    [exc |-> "None", obj |-> [type |-> type_, tags |-> tags, url |-> url, origin |-> origin]]

\* DataSource.__init__: the validation, and the object it builds.
DataSource(type_, url, tags, origin) ==
    LET parsed == urlparse(url)
    IN  IF type_ \notin VALID_TYPES
          THEN [exc |-> "ValueError", obj |-> <<>>]
        ELSE IF parsed.scheme = "" \/ parsed.netloc = "" \/ parsed.path \in {"", "/"}
          THEN [exc |-> "ValueError", obj |-> <<>>]
        ELSE [exc |-> "None",
              obj |-> [type |-> type_, tags |-> tags, url |-> url, origin |-> origin]]

\* str.strip() of a line: leading and trailing spaces are leading and
\* trailing empty tokens; a line of spaces only strips to the empty line <<>>.
RECURSIVE lstrip(_)
lstrip(line) ==
    IF line = <<>> THEN <<>>
    ELSE IF Head(line) = "" THEN lstrip(Tail(line))
    ELSE line

RECURSIVE rstrip(_)
rstrip(line) ==
    IF line = <<>> THEN <<>>
    ELSE IF line[Len(line)] = "" THEN rstrip(SubSeq(line, 1, Len(line) - 1))
    ELSE line

strip(line) == rstrip(lstrip(line))

Min(S) == CHOOSE x \in S : \A y \in S : x <= y

\* os.path.join(directory, name)
path_join(directory, name) == <<directory>> \o name

\* compute_filename_hash: the SHA-1 hex digest of the key; distinct keys of
\* the model have distinct digests.
compute_filename_hash(filename_key) == <<"sha1", filename_key>>

\* A create_model that cannot do without the cache entry file.
create_model_requires_file(files, type_, uri, tags, origin) ==
    IF compute_filename_hash(uri) \in DOMAIN files /\ files[compute_filename_hash(uri)].exists
      THEN [exc |-> "None",
            obj |-> [source |-> DataSource(type_, uri, tags, origin).obj,
                     rosdep_data |-> yaml_load(files[compute_filename_hash(uri)].text).value]]
    ELSE [exc |-> "ValueError", obj |-> <<>>]

\* cache_data_source_loader's create_model: the cache entry of the URL is
\* loaded if its file exists, else the data is None; a YAMLError of the load
\* comes before the ValueError of CachedDataSource.
create_model(files, type_, uri, tags, origin) ==
    LET filename == compute_filename_hash(uri)
        filepath == path_join(SOURCES_CACHE_DIR, filename)
        made == DataSource(type_, uri, tags, filepath)
        loaded == IF filename \in DOMAIN files /\ files[filename].exists
                    THEN yaml_load(files[filename].text)
                  ELSE [exc |-> "None", value |-> None]
        rosdep_data == loaded.value
    IN  IF loaded.exc # "None" THEN [exc |-> loaded.exc, obj |-> <<>>]
        ELSE IF made.exc # "None" THEN made
        ELSE [exc |-> "None", obj |-> [source |-> made.obj, rosdep_data |-> rosdep_data]]

\* The model argument of parse_sources_data: None, that stands for DataSource,
\* or the create_model of cache_data_source_loader over the cache files.
DefaultModel == [is_none |-> TRUE, files |-> <<>>]
cache_data_source_loader(files) == [is_none |-> FALSE, files |-> files]

\* model(type_, url, tags, origin=origin)
call_model(model, type_, url, tags, origin) ==
    IF model.is_none THEN DataSource(type_, url, tags, origin)
    ELSE create_model(model.files, type_, url, tags, origin)

\* parse_sources_data: empty lines and comments are skipped; the first line
\* with fewer than two tokens, or for which the model raises ValueError, raises
\* InvalidData; any other exception of the model leaves it as it is.
parse_sources_data(data, origin, model) ==
    LET line(i) == strip(data[i])
        skipped(i) == line(i) = <<>> \/ startswith_hash(line(i)[1])
        made(i) == call_model(model, line(i)[1], line(i)[2],
                              SubSeq(line(i), 3, Len(line(i))), origin)
        invalid(i) == ~skipped(i) /\ (Len(line(i)) < 2 \/ made(i).exc # "None")
        bad == {i \in 1..Len(data) : invalid(i)}
        raised(i) == IF Len(line(i)) < 2 \/ made(i).exc = "ValueError" THEN "InvalidData"
                     ELSE made(i).exc
        kept == SelectSeq([i \in 1..Len(data) |-> i], LAMBDA i : ~skipped(i))
    IN  IF bad # {}
          THEN [exc |-> raised(Min(bad)), origin |-> origin, line |-> line(Min(bad)),
                sources |-> <<>>]
        ELSE [exc |-> "None", origin |-> origin, line |-> <<>>,
              sources |-> [k \in 1..Len(kept) |-> made(kept[k]).obj]]

\* parse_sources_file: the file's text parsed with the file path as origin.
parse_sources_file(dir, f) ==
    parse_sources_data(dir.files[f], path_join(SOURCES_LIST_DIR, <<f>>), DefaultModel)

\* parse_sources_list: the '*.list' files in sorted order, concatenated; the
\* first file that does not parse raises.
RECURSIVE parse_files(_, _)
parse_files(dir, names) ==
    IF names = <<>> THEN [exc |-> "None", sources |-> <<>>]
    ELSE LET first == parse_sources_file(dir, Head(names))
             rest == parse_files(dir, Tail(names))
         IN  IF first.exc # "None" THEN [exc |-> first.exc, sources |-> <<>>]
             ELSE IF rest.exc # "None" THEN rest
             ELSE [exc |-> "None", sources |-> first.sources \o rest.sources]

parse_sources_list(dir, listed) ==
    IF ~dir.exists THEN [exc |-> "None", sources |-> <<>>]
    ELSE parse_files(dir, sorted(SelectSeq(listed, endswith_list)))

-----------------------------------------------------------------------------
(* The cache. *)

\* The names cache entry files are looked up under: the hashes of the URLs of
\* the model, and of what is left of them in an index line that is cut.
CacheKeys == {compute_filename_hash(u) : u \in {UrlA, UrlB, cut_url(UrlA), cut_url(UrlB)}}

\* The network's answers to a fetch: urlopen or f.read() raises, an URLError
\* or an exception that is not one (socket.timeout or socket.error out of
\* f.read(), httplib.BadStatusLine out of urlopen), or there is a body.
OtherErrors == {"socket.timeout"}

Responses ==
    {[raises |-> e, text |-> EmptyText] : e \in {"URLError"} \cup OtherErrors} \cup
    {[raises |-> "None", text |-> t] :
        t \in {safe_dump(d) : d \in Dicts} \cup {BadYamlText, safe_dump(ListValue), EmptyText}}

\* download_rosdep_data: URLError and YAMLError become DownloadFailure, and so
\* does a document that is not a dictionary; any other exception of urlopen
\* or f.read() leaves it as it is.
download_rosdep_data(resp) ==
    IF resp.raises = "URLError" THEN [exc |-> "DownloadFailure", data |-> None]
    ELSE IF resp.raises # "None" THEN [exc |-> resp.raises, data |-> None]
    ELSE LET y == yaml_load(resp.text)
         IN  IF y.exc = "YAMLError" THEN [exc |-> "DownloadFailure", data |-> None]
             ELSE IF ~is_dict(y.value) THEN [exc |-> "DownloadFailure", data |-> None]
             ELSE [exc |-> "None", data |-> y.value]

\* download_gbpdistro_as_rosdep_data: the distro file converted to a mapping
\* document, or DownloadFailure.
download_gbpdistro_as_rosdep_data(resp) ==
    LET r == download_rosdep_data(resp)
    IN  IF r.exc # "None" THEN r
        ELSE [exc |-> "None", data |-> r.data \o <<"as-rosdep-data">>]

\* The first line update_sources_list writes to the index.
INDEX_HEADER ==
    <<"#autogenerated", "by", "rosdep,", "do", "not", "edit.", "use", "'rosdep",
      "update'", "instead">>

\* ' '.join(tags), seen as tokens: no tags join to the empty string.
join_tags(tags) == IF tags = <<>> THEN <<"">> ELSE tags

\* An index line that keeps the type the source declares.
index_line_declared_type(source) == <<source.type, source.url>> \o join_tags(source.tags)

\* "yaml %s %s\n" % (source.url, ' '.join(source.tags))
index_line(source) == <<"yaml", source.url>> \o join_tags(source.tags)

\* Everything update_sources_list writes to the index file object.
index_text(sources) == <<INDEX_HEADER>> \o [i \in 1..Len(sources) |-> index_line(sources[i])]

\* What a file holds of a line when a block of the text written ends before
\* the end of the line, from the shortest on: the line up to inside a token
\* (for the URL, inside its scheme and inside its path), up to the end of a
\* token, and up to the space after it.  Of the header, whose every first
\* part is a comment, one first part is kept.
RECURSIVE cut_line_from(_, _)
cut_line_from(line, k) ==
    IF k > Len(line) THEN <<>>
    ELSE LET head == SubSeq(line, 1, k - 1)
             inside == IF k = 2 THEN <<head \o <<cut_url("")>>, head \o <<cut_url(line[2])>>>>
                       ELSE IF cut_tag(line[k]) # "" THEN <<head \o <<cut_tag(line[k])>>>>
                       ELSE <<>>
             at_end == IF k < Len(line) /\ line[k] # "" THEN <<SubSeq(line, 1, k)>> ELSE <<>>
             at_space == IF k < Len(line) /\ ~(k + 1 = Len(line) /\ line[k + 1] = "")
                           THEN <<SubSeq(line, 1, k) \o <<"">>>> ELSE <<>>
         IN  inside \o at_end \o at_space \o cut_line_from(line, k + 1)

cut_lines(line) ==
    IF startswith_hash(line[1]) THEN <<<<"#">>>>
    ELSE cut_line_from(line, 1)

\* What the index file may hold before it is closed, from the shortest on:
\* the first blocks of the text written, which end inside a line or at the end
\* of one.  A line whose newline is not in the file yet reads as the line.
RECURSIVE flushed_texts(_, _)
flushed_texts(buf, n) ==
    IF n >= Len(buf) THEN <<>>
    ELSE [k \in 1..Len(cut_lines(buf[n + 1])) |-> SubSeq(buf, 1, n) \o <<cut_lines(buf[n + 1])[k]>>]
         \o <<SubSeq(buf, 1, n + 1)>>
         \o flushed_texts(buf, n + 1)

\* How far the file is written: the place of its text among the flushed
\* texts, 0 for a file that holds nothing of the text yet.
flushed_upto(texts, text) ==
    IF \E k \in 1..Len(texts) : texts[k] = text
      THEN CHOOSE k \in 1..Len(texts) : texts[k] = text
    ELSE 0

\* load_cached_sources_list: no index file means no sources; else the index
\* is parsed with the cache loader as model.
load_cached_sources_list(files, index) ==
    IF ~index.exists THEN [exc |-> "None", sources |-> <<>>]
    ELSE LET p == parse_sources_data(index.text, path_join(SOURCES_CACHE_DIR, <<"index">>),
                                     cache_data_source_loader(files))
         IN  [exc |-> p.exc, sources |-> p.sources]


-----------------------------------------------------------------------------
(* update_sources_list, step by step: every step is one effect other       *)
(* processes can see (a file opened, written or closed, a handler called). *)

\* The sources list directories of the model: absent, or holding every file
\* of FileNames, with at most MaxLines lines in all.
Texts(n) == UNION {[1..k -> LineUniverse] : k \in 0..n}

ListDirs ==
    {[exists |-> FALSE, files |-> <<>>]} \cup
    {[exists |-> TRUE, files |-> f] :
        f \in {g \in [FileNames -> Texts(MaxLines)] :
                 Len(g["10.list"]) + Len(g["20.list"]) <= MaxLines}}

InitUpdateState ==
    /\ cache_files = [k \in CacheKeys |-> NoFile]
    /\ cache_index = NoFile
    /\ u_pc = "idle"
    /\ u_sources = <<>>
    /\ u_i = 1
    /\ u_retval = <<>>
    /\ u_data = None
    /\ u_buf = <<>>
    /\ u_events = <<>>
    /\ u_outcomes = <<>>
    /\ u_pre = [files |-> [k \in CacheKeys |-> NoFile], index |-> NoFile,
                list |-> [exists |-> FALSE, files |-> <<>>]]
    /\ u_runs = 0
    /\ u_exc = "None"
    /\ u_todo = <<>>

InitUpdate ==
    /\ sources_list_dir \in ListDirs
    /\ InitUpdateState

NothingLoaded ==
    [exc |-> "None", sources |-> <<>>, after_update |-> FALSE]

InitReader ==
    /\ r_pc = "idle"
    /\ r_loaded = NothingLoaded
    /\ r_todo = <<>>

\* parse_sources_list called on its own, step by step.
IdleParse ==
    /\ p_pc = "not_called"
    /\ p_listing = <<>>
    /\ p_todo = <<>>
    /\ p_read = [exists |-> FALSE, files |-> <<>>]
    /\ p_result = [exc |-> "None", sources |-> <<>>]

\* parse_sources_list is called: a directory that does not exist gives the
\* empty list; else os.listdir gives the names, in any order, and the
\* '*.list' files are sorted.
parse_sources_list_call ==
    /\ p_pc = "not_called"
    /\ \E listed \in listdir(sources_list_dir) :
         /\ p_listing' = listed
         /\ p_todo' = IF sources_list_dir.exists
                         THEN sorted(SelectSeq(listed, endswith_list)) ELSE <<>>
    /\ p_pc' = IF p_todo' = <<>> THEN "returned" ELSE "parse"
    /\ p_read' = [exists |-> sources_list_dir.exists,
                  files |-> IF sources_list_dir.exists THEN [f \in FileNames |-> <<>>]
                            ELSE <<>>]
    /\ p_result' = [exc |-> "None", sources |-> <<>>]
    /\ UNCHANGED <<updVars, rdrVars, ldrVars, matVars, insVars, resVars, webVars>>

\* It opens the next file, reads it and parses it as it is then: its sources
\* extend the list, or InvalidData ends the call.
parse_sources_list_file ==
    /\ p_pc = "parse"
    /\ \E p \in {parse_sources_file(sources_list_dir, Head(p_todo))} :
         IF p.exc # "None"
           THEN /\ p_result' = [exc |-> p.exc, sources |-> <<>>]
                /\ p_todo' = <<>>
                /\ p_pc' = "returned"
         ELSE /\ p_result' = [p_result EXCEPT !.sources = @ \o p.sources]
              /\ p_todo' = Tail(p_todo)
              /\ p_pc' = IF Tail(p_todo) = <<>> THEN "returned" ELSE "parse"
    /\ p_read' = [p_read EXCEPT !.files[Head(p_todo)] = sources_list_dir.files[Head(p_todo)]]
    /\ UNCHANGED p_listing
    /\ UNCHANGED <<updVars, rdrVars, ldrVars, matVars, insVars, resVars, webVars>>

\* The web: each fetch of a URL is answered by any of Responses, unless the
\* remote data is steady, and then by the one answer the URL has.
Webs == [{UrlA, UrlB} -> Responses]

ChangingWeb == [steady |-> FALSE, serves |-> [u \in {UrlA, UrlB} |-> [raises |-> "URLError", text |-> EmptyText]]]

SteadyWebs == {[steady |-> TRUE, serves |-> w] : w \in Webs}

served(url) == IF web.steady THEN {web.serves[url]} ELSE Responses

\* The dispatch on the source's type.
download(source, resp) ==
    IF source.type = TYPE_YAML THEN download_rosdep_data(resp)
    ELSE download_gbpdistro_as_rosdep_data(resp)

\* Where the loop goes on after a DownloadFailure was handled: the next source.
after_download_failure(i, n) == i + 1

\* An index of the sources that were fetched only.
index_sources_fetched(sources, outcomes) ==
    LET ok == SelectSeq([i \in 1..Len(sources) |-> i], LAMBDA i : outcomes[i])
    IN  [k \in 1..Len(ok) |-> sources[ok[k]]]

\* The sources whose lines go to the index: all of them, whatever became of
\* their fetch.
index_sources(sources, outcomes) == sources

\* An entry file opened for writing before the download is known to succeed.
files_after_download_opened_first(files, key, r) ==
    [files EXCEPT ![key] = File(EmptyText)]

\* The cache files once the download is over: write_cache_file is reached, and
\* opens the entry file for writing, only if the download raised nothing.
files_after_download(files, key, r) ==
    IF r.exc = "None" THEN [files EXCEPT ![key] = File(EmptyText)]
    ELSE files

\* update_sources_list is called and parse_sources_list begins: a directory
\* that does not exist gives no sources, else os.listdir lists it and the
\* '*.list' files are sorted.
update_begin ==
    /\ u_pc \in {"idle", "returned", "raised"}
    /\ u_runs < MaxUpdates
    /\ \E listed \in listdir(sources_list_dir) :
         u_todo' = IF sources_list_dir.exists
                     THEN sorted(SelectSeq(listed, endswith_list)) ELSE <<>>
    /\ u_pc' = IF u_todo' = <<>> THEN "loop" ELSE "parse"
    /\ u_exc' = "None"
    /\ u_sources' = <<>>
    /\ u_i' = 1
    /\ u_retval' = <<>>
    /\ u_events' = <<>>
    /\ u_outcomes' = <<>>
    /\ u_buf' = <<>>
    /\ u_pre' = [files |-> cache_files, index |-> cache_index, list |-> sources_list_dir]
    /\ u_runs' = u_runs + 1
    /\ UNCHANGED <<rdrVars, ldrVars, matVars, insVars, resVars, prsVars, webVars>>
    /\ UNCHANGED <<sources_list_dir, cache_files, cache_index, u_data>>

\* parse_sources_list opens the next file, reads it and parses it as it is
\* then: its sources extend the list, or InvalidData ends the call before
\* anything is fetched.
update_parse_file ==
    /\ u_pc = "parse"
    /\ \E p \in {parse_sources_file(sources_list_dir, Head(u_todo))} :
         IF p.exc # "None"
           THEN /\ u_pc' = "raised"
                /\ u_exc' = p.exc
                /\ u_sources' = <<>>
                /\ u_todo' = <<>>
         ELSE /\ u_sources' = u_sources \o p.sources
              /\ u_todo' = Tail(u_todo)
              /\ u_pc' = IF Tail(u_todo) = <<>> THEN "loop" ELSE "parse"
              /\ UNCHANGED u_exc
    /\ UNCHANGED <<rdrVars, ldrVars, matVars, insVars, resVars, prsVars, webVars>>
    /\ UNCHANGED <<sources_list_dir, cache_files, cache_index, u_i, u_retval, u_data, u_buf,
                   u_events, u_outcomes, u_pre, u_runs>>

\* One source is fetched.  On success write_cache_file opens the entry file
\* for writing, which creates or truncates it; on DownloadFailure the error
\* handler is called and the loop goes on; any other exception of the
\* download ends update_sources_list, which raises it.
update_fetch ==
    /\ u_pc = "loop"
    /\ u_i <= Len(u_sources)
    /\ \E resp \in served(u_sources[u_i].url) :
         LET source == u_sources[u_i]
             r == download(source, resp)
         IN  /\ cache_files' = files_after_download(cache_files,
                                                     compute_filename_hash(source.url), r)
             /\ IF r.exc = "None"
                  THEN /\ u_pc' = "write_cache_file"
                       /\ u_data' = r.data
                       /\ u_outcomes' = Append(u_outcomes, TRUE)
                       /\ UNCHANGED <<u_i, u_events, u_exc>>
                ELSE IF r.exc = "DownloadFailure"
                  THEN /\ u_events' = Append(u_events, <<"error_handler", u_i>>)
                       /\ u_i' = after_download_failure(u_i, Len(u_sources))
                       /\ u_outcomes' = Append(u_outcomes, FALSE)
                       /\ UNCHANGED <<u_pc, u_data, u_exc>>
                ELSE /\ u_pc' = "raised"
                     /\ u_exc' = r.exc
                     /\ UNCHANGED <<u_i, u_data, u_events, u_outcomes>>
    /\ UNCHANGED <<rdrVars, ldrVars, matVars, insVars, resVars, prsVars, webVars>>
    /\ UNCHANGED <<sources_list_dir, cache_index, u_sources, u_retval, u_buf, u_pre, u_runs,
                   u_todo>>

\* What a successful fetch of source i is followed by: write_cache_file, then
\* the success handler.
on_success(i) == <<<<"write_cache_file", i>>, <<"success_handler", i>>>>

\* write_cache_file has handed the dumped data to the file object, which
\* flushes a first part of it to the file before the file is closed.
update_flush_cache_file ==
    /\ u_pc = "write_cache_file"
    /\ cache_files[compute_filename_hash(u_sources[u_i].url)].text = EmptyText
    /\ \E part \in PartialTexts(u_data) :
         cache_files' = [cache_files EXCEPT
                           ![compute_filename_hash(u_sources[u_i].url)] = File(part)]
    /\ UNCHANGED <<rdrVars, ldrVars, matVars, insVars, resVars, prsVars, webVars>>
    /\ UNCHANGED <<sources_list_dir, cache_index, u_pc, u_sources, u_i, u_retval, u_data,
                   u_buf, u_events, u_outcomes, u_pre, u_runs, u_exc,
                   u_todo>>

\* write_cache_file closes the file, which then holds the whole dumped data;
\* the pair is appended to retval and the success handler is called.
update_write_cache_file ==
    /\ u_pc = "write_cache_file"
    /\ LET source == u_sources[u_i]
           key_hash == compute_filename_hash(source.url)
       IN  /\ cache_files' = [cache_files EXCEPT ![key_hash] = File(safe_dump(u_data))]
           /\ u_retval' = Append(u_retval, <<u_i, path_join(SOURCES_CACHE_DIR, key_hash)>>)
    /\ u_events' = u_events \o on_success(u_i)
    /\ u_i' = u_i + 1
    /\ u_pc' = "loop"
    /\ u_data' = None
    /\ UNCHANGED <<rdrVars, ldrVars, matVars, insVars, resVars, prsVars, webVars>>
    /\ UNCHANGED <<sources_list_dir, cache_index, u_sources, u_buf, u_outcomes, u_pre, u_runs, u_exc,
                   u_todo>>

\* An open that keeps what the file holds, as mode 'a' does.
opened_for_appending(file) == File(file.text)

\* open(cache_index, 'w'): the file exists and is empty.
opened_for_writing(file) == File(<<>>)

\* The loop is over: the index file is opened for writing, which creates or
\* truncates it, and the header and one line per source are written to the
\* file object.
update_open_index ==
    /\ u_pc = "loop"
    /\ u_i > Len(u_sources)
    /\ cache_index' = opened_for_writing(cache_index)
    /\ u_buf' = opened_for_writing(cache_index).text
                    \o index_text(index_sources(u_sources, u_outcomes))
    /\ u_pc' = "write_index"
    /\ UNCHANGED <<rdrVars, ldrVars, matVars, insVars, resVars, prsVars, webVars>>
    /\ UNCHANGED <<sources_list_dir, cache_files, u_sources, u_i, u_retval, u_data,
                   u_events, u_outcomes, u_pre, u_runs, u_exc,
                   u_todo>>

\* The file object flushes a block of what was written before the file is
\* closed; the block ends wherever its size makes it end, inside a line or not.
update_flush_index ==
    /\ u_pc = "write_index"
    /\ \E texts \in {flushed_texts(u_buf, 0)} :
         \E k \in (flushed_upto(texts, cache_index.text) + 1)..Len(texts) :
            cache_index' = File(texts[k])
    /\ UNCHANGED <<rdrVars, ldrVars, matVars, insVars, resVars, prsVars, webVars>>
    /\ UNCHANGED <<sources_list_dir, cache_files, u_pc, u_sources, u_i, u_retval, u_data,
                   u_buf, u_events, u_outcomes, u_pre, u_runs, u_exc,
                   u_todo>>

\* The index file is closed, which writes the rest, and retval is returned.
update_close_index ==
    /\ u_pc = "write_index"
    /\ cache_index' = File(u_buf)
    /\ u_pc' = "returned"
    /\ UNCHANGED <<rdrVars, ldrVars, matVars, insVars, resVars, prsVars, webVars>>
    /\ UNCHANGED <<sources_list_dir, cache_files, u_sources, u_i, u_retval, u_data,
                   u_buf, u_events, u_outcomes, u_pre, u_runs, u_exc,
                   u_todo>>

\* Somebody appends a line to a file of the sources list directory, between
\* two runs of update_sources_list or while parse_sources_list reads the
\* files.  Once the files are read, an edit made during a run is to it an edit
\* made after it.
sources_list_edit ==
    /\ u_pc \in {"parse", "returned", "raised"} \/ p_pc = "parse"
    /\ sources_list_dir.exists
    /\ Len(sources_list_dir.files["10.list"]) + Len(sources_list_dir.files["20.list"]) < MaxLines
    /\ \E f \in FileNames, line \in LineUniverse :
         sources_list_dir' = [sources_list_dir EXCEPT !.files[f] = Append(@, line)]
    /\ UNCHANGED <<rdrVars, ldrVars, matVars, insVars, resVars, prsVars, webVars>>
    /\ UNCHANGED <<cache_files, cache_index, u_pc, u_sources, u_i, u_retval, u_data,
                   u_buf, u_events, u_outcomes, u_pre, u_runs, u_exc,
                   u_todo>>

\* The lines parse_sources_data has yet to call the model for: empty lines
\* and comments, which it skips, are left out.
RECURSIVE drop_skipped(_)
drop_skipped(lines) ==
    IF lines = <<>> THEN <<>>
    ELSE IF strip(Head(lines)) = <<>> \/ startswith_hash(strip(Head(lines))[1])
      THEN drop_skipped(Tail(lines))
    ELSE lines

\* A reader calls load_cached_sources_list, at any point of an update: with no
\* index file it returns the empty list; else it reads the index file whole.
reader_load ==
    /\ r_pc = "idle"
    /\ r_todo' = IF cache_index.exists THEN drop_skipped(cache_index.text) ELSE <<>>
    /\ r_pc' = IF r_todo' = <<>> THEN "returned" ELSE "entries"
    /\ r_loaded' = [exc |-> "None", sources |-> <<>>, after_update |-> u_pc = "returned"]
    /\ UNCHANGED <<updVars, ldrVars, matVars, insVars, resVars, prsVars, webVars>>

\* parse_sources_data comes to the next line of the index it read and calls
\* create_model, which opens and loads the cache entry file as it is then; an
\* exception ends the call, and so does the last line.
reader_entry ==
    /\ r_pc = "entries"
    /\ \E p \in {parse_sources_data(<<Head(r_todo)>>, path_join(SOURCES_CACHE_DIR, <<"index">>),
                                    cache_data_source_loader(cache_files))} :
         IF p.exc # "None"
           THEN /\ r_loaded' = [r_loaded EXCEPT !.exc = p.exc, !.sources = <<>>]
                /\ r_todo' = <<>>
                /\ r_pc' = "returned"
         ELSE /\ r_loaded' = [r_loaded EXCEPT !.sources = @ \o p.sources]
              /\ r_todo' = drop_skipped(Tail(r_todo))
              /\ r_pc' = IF r_todo' = <<>> THEN "returned" ELSE "entries"
    /\ UNCHANGED <<updVars, ldrVars, matVars, insVars, resVars, prsVars, webVars>>

\* The reader is done with what it loaded.
reader_return ==
    /\ r_pc = "returned"
    /\ r_pc' = "idle"
    /\ r_loaded' = NothingLoaded
    /\ UNCHANGED r_todo
    /\ UNCHANGED <<updVars, ldrVars, matVars, insVars, resVars, prsVars, webVars>>


-----------------------------------------------------------------------------
(* DataSourceMatcher. *)

set_of(seq) == {seq[i] : i \in 1..Len(seq)}

\* Python's truth value of a string: the empty string is false.
truthy(str) == str # ""

\* Python's any() over a set of strings.
any(S) == \E x \in S : truthy(x)

\* DataSourceMatcher.matches, for a matcher with tags self_tags.
matches(self_tags, source_tags) == ~any(set_of(source_tags) \ set_of(self_tags))

TagUniverse == {"", "ubuntu", "debian"}

\* The tag lists parse_sources_data can give a source: the line is stripped
\* before it is split, so the last tag is never empty.
SourceTagLists ==
    {t \in UNION {[1..k -> TagUniverse] : k \in 0..MaxTags} : t = <<>> \/ t[Len(t)] # ""}

MatcherTagLists ==
    {<<>>, <<"ubuntu">>, <<"debian">>, <<"ubuntu", "debian">>,
     <<"">>, <<"", "ubuntu">>, <<"", "debian">>, <<"", "ubuntu", "debian">>}

InitMatch ==
    /\ m_pc = "start"
    /\ m_source_tags \in SourceTagLists
    /\ m_tags \in MatcherTagLists
    /\ m_result = FALSE

IdleMatch ==
    /\ m_pc = "start"
    /\ m_source_tags = <<>>
    /\ m_tags = <<>>
    /\ m_result = FALSE

\* DataSourceMatcher(m_tags).matches(source) is called.
matcher_matches ==
    /\ m_pc = "start"
    /\ m_pc' = "returned"
    /\ m_result' = matches(m_tags, m_source_tags)
    /\ UNCHANGED <<m_source_tags, m_tags>>
    /\ UNCHANGED <<updVars, rdrVars, ldrVars, insVars, resVars, prsVars, webVars>>

-----------------------------------------------------------------------------
(* SourcesListLoader and the RosdepDatabase it loads views into. *)

ALL_VIEW_KEY == "sources.list"

ViewNames == {UrlA, UrlB, ALL_VIEW_KEY, "ros_comm"}

\* RosdepDatabase.is_loaded
is_loaded(db, view_name) == view_name \in DOMAIN db

\* RosdepDatabase.set_view_data
set_view_data(db, view_name, rosdep_data, view_dependencies, origin) ==
    [n \in DOMAIN db \cup {view_name} |->
        IF n = view_name
          THEN [rosdep_data |-> rosdep_data, view_dependencies |-> view_dependencies,
                origin |-> origin]
        ELSE db[n]]

\* SourcesListLoader.create_default once load_cached_sources_list is over:
\* what the load raised, create_default raises; else the loader is made of
\* the cached sources the matcher matches.
create_default(matcher_tags, loaded) ==
    IF loaded.exc # "None" THEN [exc |-> loaded.exc, sources |-> <<>>]
    ELSE [exc |-> "None",
          sources |-> SelectSeq(loaded.sources,
                                LAMBDA x : matches(matcher_tags, x.source.tags))]

\* SourcesListLoader.get_loadable_views
get_loadable_views(sources) == [i \in 1..Len(sources) |-> sources[i].source.url]

\* A get_view_dependencies that takes no view for a leaf.
get_view_dependencies_no_leaf(sources, view_name) ==
    [i \in 1..Len(sources) |-> sources[i].source.url]

\* SourcesListLoader.get_view_dependencies
get_view_dependencies(sources, view_name) ==
    IF view_name # ALL_VIEW_KEY
         /\ SelectSeq(sources, LAMBDA x : view_name = x.source.url) # <<>>
      THEN <<>>
    ELSE [i \in 1..Len(sources) |-> sources[i].source.url]

\* A get_source that falls back on the first source.
get_source_or_first(sources, view_name) ==
    LET found == SelectSeq(sources, LAMBDA x : x.source.url = view_name)
    IN  IF found # <<>> THEN [exc |-> "None", found |-> found]
        ELSE IF sources # <<>> THEN [exc |-> "None", found |-> sources]
        ELSE [exc |-> "ResourceNotFound", found |-> <<>>]

\* SourcesListLoader.get_source
get_source(sources, view_name) ==
    LET found == SelectSeq(sources, LAMBDA x : x.source.url = view_name)
    IN  IF found # <<>> THEN [exc |-> "None", found |-> found]
        ELSE [exc |-> "ResourceNotFound", found |-> <<>>]

\* A load_view that does not ask the database whether the view is loaded.
load_view_always(sources, view_name, db) ==
    LET got == get_source(sources, view_name)
    IN  IF got.exc # "None" THEN [exc |-> got.exc, db |-> db]
        ELSE [exc |-> "None",
              db |-> set_view_data(db, view_name, got.found[1].rosdep_data,
                                   get_view_dependencies(sources, view_name),
                                   view_name)]

\* SourcesListLoader.load_view: the database after the call, and what it raised.
load_view(sources, view_name, db) ==
    IF is_loaded(db, view_name) THEN [exc |-> "None", db |-> db]
    ELSE LET got == get_source(sources, view_name)
         IN  IF got.exc # "None" THEN [exc |-> got.exc, db |-> db]
             ELSE [exc |-> "None",
                   db |-> set_view_data(db, view_name, got.found[1].rosdep_data,
                                        get_view_dependencies(sources, view_name),
                                        view_name)]

\* SourcesListLoader.get_rosdeps
get_rosdeps(sources, resource_name) == [exc |-> "ResourceNotFound"]

\* SourcesListLoader.get_view_key
get_view_key(sources, resource_name) == [exc |-> "ResourceNotFound"]

NoCall == [op |-> "none", arg |-> "", exc |-> "None", result |-> <<>>, db_before |-> <<>>]

InitLoader ==
    /\ l_made = FALSE
    /\ l_matcher = <<>>
    /\ l_sources = <<>>
    /\ rosdep_db = <<>>
    /\ l_call = NoCall
    /\ l_calls = 0

\* The matchers a loader is built with.
LoaderMatcherTagLists == {<<>>, <<"ubuntu">>, <<"debian">>, <<"ubuntu", "debian">>}

\* SourcesListLoader.create_default, called with a matcher: it calls
\* load_cached_sources_list, whose steps are reader_load and reader_entry and
\* which may run while an update writes the cache; once that call is over,
\* the matcher, which is used here only, filters what it returned and the
\* loader is made, or create_default raises what the load raised and makes
\* no loader.
loader_create_default ==
    /\ ~l_made
    /\ r_pc = "returned"
    /\ \E tags \in LoaderMatcherTagLists :
         \E made \in {create_default(tags, r_loaded)} :
            /\ l_made' = (made.exc = "None")
            /\ l_matcher' = IF made.exc = "None" THEN tags ELSE <<>>
            /\ l_sources' = made.sources
            /\ l_call' = [op |-> "create_default", arg |-> "", exc |-> made.exc,
                          result |-> <<>>, db_before |-> rosdep_db]
    /\ r_pc' = "idle"
    /\ r_loaded' = NothingLoaded
    /\ UNCHANGED <<r_todo, rosdep_db, l_calls>>
    /\ UNCHANGED <<updVars, matVars, insVars, resVars, prsVars, webVars>>

loader_load_view ==
    /\ l_made
    /\ l_calls < MaxCalls
    /\ \E view_name \in ViewNames :
         LET r == load_view(l_sources, view_name, rosdep_db)
         IN  /\ rosdep_db' = r.db
             /\ l_call' = [op |-> "load_view", arg |-> view_name, exc |-> r.exc,
                           result |-> <<>>, db_before |-> rosdep_db]
    /\ l_calls' = l_calls + 1
    /\ UNCHANGED <<l_made, l_matcher, l_sources>>
    /\ UNCHANGED <<updVars, rdrVars, matVars, insVars, resVars, prsVars, webVars>>

loader_get_view_dependencies ==
    /\ l_made
    /\ l_calls < MaxCalls
    /\ \E view_name \in ViewNames :
         l_call' = [op |-> "get_view_dependencies", arg |-> view_name, exc |-> "None",
                    result |-> get_view_dependencies(l_sources, view_name),
                    db_before |-> rosdep_db]
    /\ l_calls' = l_calls + 1
    /\ UNCHANGED <<l_made, l_matcher, l_sources, rosdep_db>>
    /\ UNCHANGED <<updVars, rdrVars, matVars, insVars, resVars, prsVars, webVars>>

loader_get_rosdeps ==
    /\ l_made
    /\ l_calls < MaxCalls
    /\ \E resource_name \in ViewNames :
         l_call' = [op |-> "get_rosdeps", arg |-> resource_name,
                    exc |-> get_rosdeps(l_sources, resource_name).exc,
                    result |-> <<>>, db_before |-> rosdep_db]
    /\ l_calls' = l_calls + 1
    /\ UNCHANGED <<l_made, l_matcher, l_sources, rosdep_db>>
    /\ UNCHANGED <<updVars, rdrVars, matVars, insVars, resVars, prsVars, webVars>>

loader_get_view_key ==
    /\ l_made
    /\ l_calls < MaxCalls
    /\ \E resource_name \in ViewNames :
         l_call' = [op |-> "get_view_key", arg |-> resource_name,
                    exc |-> get_view_key(l_sources, resource_name).exc,
                    result |-> <<>>, db_before |-> rosdep_db]
    /\ l_calls' = l_calls + 1
    /\ UNCHANGED <<l_made, l_matcher, l_sources, rosdep_db>>
    /\ UNCHANGED <<updVars, rdrVars, matVars, insVars, resVars, prsVars, webVars>>

\* Another loader the database is composed with registers a view of its own.
other_loader_load_view ==
    /\ l_made
    /\ l_calls < MaxCalls
    /\ \E view_name \in ViewNames :
         /\ ~is_loaded(rosdep_db, view_name)
         /\ rosdep_db' = set_view_data(rosdep_db, view_name, None, <<>>, "other")
         /\ l_call' = [op |-> "other", arg |-> view_name, exc |-> "None",
                       result |-> <<>>, db_before |-> rosdep_db]
    /\ l_calls' = l_calls + 1
    /\ UNCHANGED <<l_made, l_matcher, l_sources>>
    /\ UNCHANGED <<updVars, rdrVars, matVars, insVars, resVars, prsVars, webVars>>


-----------------------------------------------------------------------------
(* install_source of platforms/jfrog.py, step by step.  A URL is the       *)
(* sequence of its parts between slashes, url.split('/').                  *)

JFROG_INSTALLER == "jfrog"

TarballPrimary ==
    <<"https:", "", "jfrog.example", "artifactory", "repo", "pkg", "1.0", "amd64", "pkg.tar.gz">>
TarballDmg ==
    <<"https:", "", "jfrog.example", "artifactory", "repo", "pkg", "1.0", "amd64", "pkg.dmg">>
TarballMirrorSameDir ==
    <<"https:", "", "jfrog.example", "artifactory", "mirror", "pkg", "1.0", "amd64", "pkg.tar.gz">>
TarballMirrorOtherDir ==
    <<"https:", "", "jfrog.example", "artifactory", "mirror", "pkg", "1.0", "all", "pkg.tar.gz">>

\* The URL the manifest of the JFrogInstall was loaded from.
ManifestUrl ==
    <<"https:", "", "jfrog.example", "artifactory", "repo", "pkg", "1.0", "amd64", "pkg.rdmanifest">>

NoUrl == <<>>
NoMd5 == ""
Digests == {"m1", "m2"}

\* "/".join(s[-4:]), as the sequence of its parts
url_filename(url) == SubSeq(url, Len(url) - 3, Len(url))

\* os.path.dirname
dirname(filename) == SubSeq(filename, 1, Len(filename) - 1)

\* filename.endswith('.dmg')
endswith_dmg(filename) == filename # <<>> /\ filename[Len(filename)] = "pkg.dmg"

\* What the repository serves for a URL: nothing, or an artifact with its md5
\* digest, which is a readable archive or not.
Artifacts ==
    {[served |-> FALSE, digest |-> "", archive |-> FALSE]} \cup
    {[served |-> TRUE, digest |-> d, archive |-> a] : d \in Digests, a \in BOOLEAN}

Resolved ==
    {[manifest_url |-> ManifestUrl, tarball |-> t, alternate_tarball |-> a,
      tarball_md5sum |-> m, dependencies |-> <<>>] :
        t \in {TarballPrimary, TarballDmg},
        a \in {NoUrl, TarballMirrorSameDir, TarballMirrorOtherDir},
        m \in {NoMd5, "m1"}}

ancestors(dir) == {SubSeq(dir, 1, k) : k \in 1..Len(dir)}

is_under(path, dir) == Len(path) >= Len(dir) /\ SubSeq(path, 1, Len(dir)) = dir

\* jfrog_urlretrieve: 'jf rt dl' writes the artifact under the current
\* directory and the file name is returned, or nothing is written and the
\* name returned is empty.
jfrog_urlretrieve(url, artifact, dirs, files) ==
    LET f == url_filename(url)
    IN  IF artifact.served
          THEN [name |-> f,
                dirs |-> dirs \cup ancestors(dirname(f)),
                files |-> {x \in files : x.name # f} \cup
                          {[name |-> f, digest |-> artifact.digest, archive |-> artifact.archive]}]
        ELSE [name |-> <<>>, dirs |-> dirs, files |-> files]

\* get_file_hash: the digest of the file, or IOError when it cannot be opened.
get_file_hash(filename, files) ==
    IF \E x \in files : x.name = filename
      THEN [exc |-> "None", digest |-> (CHOOSE x \in files : x.name = filename).digest]
    ELSE [exc |-> "IOError", digest |-> ""]

\* shutil.rmtree(tempdir): the directory and all it holds are removed.
rmtree_dirs(dirs, tempdir) == {d \in dirs : ~is_under(d, tempdir)}
rmtree_files(files, tempdir) == {x \in files : ~is_under(x.name, tempdir)}

\* The failure an InstallFailed carries: the installer, and the message as
\* its format and the values formatted into it.
NoFailure == [installer |-> "", message |-> "", urls |-> <<>>, expected |-> "", got |-> <<>>]
md5sum_failure(resolved, hash1) ==
    [installer |-> JFROG_INSTALLER, message |-> "md5sum check on %s failed",
     urls |-> <<resolved.tarball>>, expected |-> resolved.tarball_md5sum, got |-> <<hash1>>]
md5sum_failure_both(resolved, hash1, hash2) ==
    [installer |-> JFROG_INSTALLER, message |-> "md5sum check on %s and %s failed",
     urls |-> <<resolved.tarball, resolved.alternate_tarball>>,
     expected |-> resolved.tarball_md5sum, got |-> <<hash1, hash2>>]
script_failure ==
    [installer |-> JFROG_INSTALLER, message |-> "installation script returned with error code",
     urls |-> <<>>, expected |-> "", got |-> <<>>]

\* An alternate tarball that passes for any digest.
alternate_rejected_never(md5sum, hash2) == FALSE

\* resolved.tarball_md5sum != hash2
alternate_rejected(md5sum, hash2) == md5sum # hash2

\* The directory install_source works in: os.path.dirname of the file name
\* derived from the tarball URL.
tempdir_of(resolved) == dirname(url_filename(resolved.tarball))

\* x is an element of the sequence.
SeqHas(seq, x) == \E k \in 1..Len(seq) : seq[k] = x

\* is_source_installed: what running the check-presence script returns, true
\* when the script exits with code zero.
is_source_installed(source_item, exit_zero) == exit_zero

\* A detection that finds nothing installed.
source_detect_nothing(pkgs, exit_zero) == <<>>

\* source_detect: the packages whose check-presence script succeeds.
source_detect(pkgs, exit_zero) ==
    SelectSeq(pkgs, LAMBDA x : is_source_installed(x, exit_zero))

\* PackageManagerInstaller.get_packages_to_install: the resolved packages the
\* detection did not find.
get_packages_to_install(resolved, exit_zero) ==
    LET detected == source_detect(resolved, exit_zero)
    IN  SelectSeq(resolved, LAMBDA x : ~SeqHas(detected, x))

\* JFrogInstaller.get_install_command: one rosdep-jfrog command for every
\* package to install.
get_install_command(resolved, exit_zero) ==
    LET packages == get_packages_to_install(resolved, exit_zero)
    IN  [k \in 1..Len(packages) |-> <<"rosdep-jfrog", "install", packages[k].manifest_url>>]

InitInstallState ==
    /\ i_resolved \in Resolved
    /\ i_remote \in [tarball : Artifacts, alternate : Artifacts]
    /\ i_presence = "unchecked"
    /\ i_commands = <<>>
    /\ i_filename = <<>>
    /\ i_hash1 = ""
    /\ i_hash2 = ""
    /\ i_exc = "None"
    /\ i_failure = NoFailure
    /\ i_dirs = {}
    /\ i_files = {}
    /\ i_steps = <<>>

\* Before get_install_command is called for the JFrogInstall.
InitPipeline == i_pc = "not_started" /\ InitInstallState

\* install_source is called for a JFrogInstall, in a current directory that is
\* empty or holds the manifest install_from_url downloaded.
InitInstall ==
    /\ i_pc = "start"
    /\ i_presence = "unchecked"
    /\ i_commands = <<>>
    /\ i_resolved \in Resolved
    /\ i_remote \in [tarball : Artifacts, alternate : Artifacts]
    /\ i_filename = <<>>
    /\ i_hash1 = ""
    /\ i_hash2 = ""
    /\ i_exc = "None"
    /\ i_failure = NoFailure
    /\ i_files \in {{}, {[name |-> url_filename(ManifestUrl), digest |-> "x2",
                            archive |-> FALSE]}}
    /\ i_dirs = IF i_files = {} THEN {} ELSE ancestors(dirname(url_filename(ManifestUrl)))
    /\ i_steps = <<>>

IdleInstall ==
    /\ i_pc = "idle"
    /\ i_presence = "unchecked"
    /\ i_commands = <<>>
    /\ i_resolved = [manifest_url |-> ManifestUrl, tarball |-> TarballPrimary,
                     alternate_tarball |-> NoUrl, tarball_md5sum |-> NoMd5,
                     dependencies |-> <<>>]
    /\ i_remote = [tarball |-> [served |-> FALSE, digest |-> "", archive |-> FALSE],
                   alternate |-> [served |-> FALSE, digest |-> "", archive |-> FALSE]]
    /\ i_filename = <<>>
    /\ i_hash1 = ""
    /\ i_hash2 = ""
    /\ i_exc = "None"
    /\ i_failure = NoFailure
    /\ i_dirs = {}
    /\ i_files = {}
    /\ i_steps = <<>>

\* get_install_command for the JFrogInstall: its check-presence script is
\* run, and it gets a command unless the script exits with code zero.
pipeline_get_install_command ==
    /\ i_pc = "not_started"
    /\ \E exit_zero \in BOOLEAN :
         /\ i_presence' = IF exit_zero THEN "zero" ELSE "nonzero"
         /\ i_commands' = get_install_command(<<i_resolved>>, exit_zero)
         /\ i_pc' = IF get_install_command(<<i_resolved>>, exit_zero) = <<>>
                      THEN "already_installed" ELSE "command"
    /\ UNCHANGED <<i_resolved, i_remote, i_filename, i_hash1, i_hash2, i_exc, i_failure,
                   i_dirs, i_files, i_steps>>
    /\ UNCHANGED <<updVars, rdrVars, ldrVars, matVars, resVars, prsVars, webVars>>

\* The primary tarball is fetched; the assert on the returned name follows.
install_fetch ==
    /\ i_pc = "start"
    /\ LET filename == url_filename(i_resolved.tarball)
           f == jfrog_urlretrieve(i_resolved.tarball, i_remote.tarball, i_dirs, i_files)
       IN  /\ i_filename' = filename
           /\ i_dirs' = f.dirs
           /\ i_files' = f.files
           /\ IF f.name = filename
                THEN i_pc' = "verify" /\ i_exc' = "None"
              ELSE i_pc' = "raised" /\ i_exc' = "AssertionError"
    /\ i_steps' = Append(i_steps, "fetch")
    /\ UNCHANGED <<i_presence, i_commands, i_resolved, i_remote, i_hash1, i_hash2, i_failure>>
    /\ UNCHANGED <<updVars, rdrVars, ldrVars, matVars, resVars, prsVars, webVars>>

\* A check of the primary tarball that accepts any digest.
primary_verified_unchecked(md5sum, hash1) == TRUE

\* resolved.tarball_md5sum != hash1, negated: the primary tarball is accepted.
primary_verified(md5sum, hash1) == md5sum = hash1

\* The md5sum check of the primary tarball, when an md5sum is declared.
install_verify ==
    /\ i_pc = "verify"
    /\ IF i_resolved.tarball_md5sum # NoMd5
         THEN LET h == get_file_hash(i_filename, i_files)
              IN  /\ i_hash1' = h.digest
                  /\ IF h.exc # "None"
                       THEN i_pc' = "raised" /\ i_exc' = h.exc /\ i_failure' = NoFailure
                     ELSE IF primary_verified(i_resolved.tarball_md5sum, h.digest)
                       THEN i_pc' = "extract" /\ i_exc' = "None" /\ i_failure' = NoFailure
                     ELSE IF i_resolved.alternate_tarball # NoUrl
                       THEN /\ i_pc' = "fetch_alternate"
                            /\ i_exc' = "None"
                            /\ i_failure' = NoFailure
                     ELSE /\ i_pc' = "raised"
                          /\ i_exc' = "InstallFailed"
                          /\ i_failure' = md5sum_failure(i_resolved, h.digest)
       ELSE i_pc' = "extract" /\ i_exc' = "None" /\ i_hash1' = i_hash1 /\ i_failure' = NoFailure
    /\ i_steps' = Append(i_steps, "verify")
    /\ UNCHANGED <<i_presence, i_commands, i_resolved, i_remote, i_filename, i_hash2, i_dirs, i_files>>
    /\ UNCHANGED <<updVars, rdrVars, ldrVars, matVars, resVars, prsVars, webVars>>

\* The backup tarball is fetched and checked.
install_fetch_alternate ==
    /\ i_pc = "fetch_alternate"
    /\ LET f == jfrog_urlretrieve(i_resolved.alternate_tarball, i_remote.alternate,
                                  i_dirs, i_files)
           h == get_file_hash(f.name, f.files)
       IN  /\ i_filename' = f.name
           /\ i_dirs' = f.dirs
           /\ i_files' = f.files
           /\ i_hash2' = h.digest
           /\ IF h.exc # "None"
                THEN i_pc' = "raised" /\ i_exc' = h.exc /\ i_failure' = NoFailure
              ELSE IF alternate_rejected(i_resolved.tarball_md5sum, h.digest)
                THEN /\ i_pc' = "raised"
                     /\ i_exc' = "InstallFailed"
                     /\ i_failure' = md5sum_failure_both(i_resolved, i_hash1, h.digest)
              ELSE i_pc' = "extract" /\ i_exc' = "None" /\ i_failure' = NoFailure
    /\ i_steps' = Append(i_steps, "fetch_alternate")
    /\ UNCHANGED <<i_presence, i_commands, i_resolved, i_remote, i_hash1>>
    /\ UNCHANGED <<updVars, rdrVars, ldrVars, matVars, resVars, prsVars, webVars>>

\* Inside the try: the tarball is extracted into the working directory unless
\* it is a dmg; a tarball that cannot be read raises, and the finally clause
\* removes the working directory.
install_extract ==
    /\ i_pc = "extract"
    /\ LET tempdir == tempdir_of(i_resolved)
           tarball == CHOOSE x \in i_files : x.name = i_filename
       IN  IF endswith_dmg(i_filename)
             THEN /\ i_pc' = "execute"
                  /\ i_steps' = i_steps
                  /\ UNCHANGED <<i_exc, i_dirs, i_files>>
           ELSE IF tarball.archive
             THEN /\ i_pc' = "execute"
                  /\ i_steps' = Append(i_steps, "extract")
                  /\ i_files' = i_files \cup
                       {[name |-> tempdir \o <<"install.sh">>, digest |-> "", archive |-> FALSE]}
                  /\ UNCHANGED <<i_exc, i_dirs>>
           ELSE /\ i_pc' = "raised"
                /\ i_exc' = "ReadError"
                /\ i_steps' = i_steps \o <<"extract", "rmtree">>
                /\ i_dirs' = rmtree_dirs(i_dirs, tempdir)
                /\ i_files' = rmtree_files(i_files, tempdir)
    /\ UNCHANGED <<i_presence, i_commands, i_resolved, i_remote, i_filename, i_hash1, i_hash2, i_failure>>
    /\ UNCHANGED <<updVars, rdrVars, ldrVars, matVars, resVars, prsVars, webVars>>

\* The install script is run; whether it succeeds or not, the finally clause
\* removes the working directory.
install_execute ==
    /\ i_pc = "execute"
    /\ \E success \in BOOLEAN :
         IF success THEN i_pc' = "returned" /\ i_exc' = "None" /\ i_failure' = NoFailure
         ELSE i_pc' = "raised" /\ i_exc' = "InstallFailed" /\ i_failure' = script_failure
    /\ i_steps' = i_steps \o <<"execute", "rmtree">>
    /\ i_dirs' = rmtree_dirs(i_dirs, tempdir_of(i_resolved))
    /\ i_files' = rmtree_files(i_files, tempdir_of(i_resolved))
    /\ UNCHANGED <<i_presence, i_commands, i_resolved, i_remote, i_filename, i_hash1, i_hash2>>
    /\ UNCHANGED <<updVars, rdrVars, ldrVars, matVars, resVars, prsVars, webVars>>

-----------------------------------------------------------------------------
(* JFrogInstaller.resolve and get_depends of platforms/jfrog.py, with the  *)
(* manifest download they rest on.  URLs have at least five parts, as      *)
(* url.split('/')[4] requires.                                             *)

ManifestMirror ==
    <<"https:", "", "jfrog.example", "artifactory", "mirror", "pkg", "1.0", "amd64", "pkg.rdmanifest">>

ManifestUrls == {ManifestUrl, ManifestMirror}

\* None, for an md5sum that is not given; a URL not given is NoUrl.
NoValue == "None"

\* What the repository holds for a manifest URL: nothing ('jf rt dl' exits
\* non-zero), or a file with its text and the md5 digest of the text.  The
\* text is what YAML makes of it: empty, a scanner error, a parser error, a
\* list, or a mapping with the keys it has.
NotServed == [served |-> FALSE, yaml |-> "", has_uri |-> FALSE, has_depends |-> FALSE,
              depends |-> <<>>, digest |-> "", uri |-> NoUrl, alternate_uri |-> NoUrl,
              md5sum |-> NoMd5]
ManifestFile(yaml, has_uri, has_depends, depends, digest) ==
    [served |-> TRUE, yaml |-> yaml, has_uri |-> has_uri, has_depends |-> has_depends,
     depends |-> depends, digest |-> digest,
     uri |-> IF has_uri THEN TarballPrimary ELSE NoUrl, alternate_uri |-> NoUrl,
     md5sum |-> NoMd5]
EmptyManifest == ManifestFile("empty", FALSE, FALSE, <<>>, "x0")
ManifestFiles ==
    { NotServed,
      EmptyManifest,
      ManifestFile("scanner_error", FALSE, FALSE, <<>>, "x1"),
      ManifestFile("parser_error", FALSE, FALSE, <<>>, "x1"),
      ManifestFile("list", FALSE, FALSE, <<>>, "x1"),
      ManifestFile("mapping", FALSE, TRUE, <<"k2">>, "x1"),
      ManifestFile("mapping", TRUE, FALSE, <<>>, "x2"),
      ManifestFile("mapping", TRUE, TRUE, <<"k2">>, "x1") }

\* _sub_fetch_file: the contents of the downloaded file, or DownloadFailed
\* when the download exits non-zero or the md5sum given does not match.
sub_fetch_file(url, md5sum, remote) ==
    LET file == remote[url]
    IN  IF ~file.served
          THEN [exc |-> "DownloadFailed", error |-> "jfrog download returned", contents |-> EmptyManifest]
        ELSE IF md5sum # NoValue /\ md5sum # "" /\ file.digest # md5sum
          THEN [exc |-> "DownloadFailed", error |-> "md5sum didn't match", contents |-> EmptyManifest]
        ELSE [exc |-> "None", error |-> "", contents |-> file]

\* fetch_file: (contents, error); DownloadFailed leaves the contents empty.
fetch_file(url, md5sum, remote) ==
    LET got == sub_fetch_file(url, md5sum, remote)
    IN  IF got.exc = "DownloadFailed"
          THEN [contents |-> EmptyManifest, error |-> got.error]
        ELSE [contents |-> got.contents, error |-> ""]

\* not contents
no_contents(contents) == contents.yaml = "empty"

\* load_rdmanifest: yaml.safe_load, whose ScannerError becomes
\* InvalidRdmanifest; any other YAML error is not caught.
load_rdmanifest(contents) ==
    IF contents.yaml = "scanner_error" THEN [exc |-> "InvalidRdmanifest", manifest |-> contents]
    ELSE IF contents.yaml = "parser_error" THEN [exc |-> "ParserError", manifest |-> contents]
    ELSE [exc |-> "None", manifest |-> contents]

\* A download that asks the mirror whatever the primary yielded.
try_alt_url_always(contents, alt_url) == alt_url # NoUrl

\* not contents and alt_url
try_alt_url(contents, alt_url) == no_contents(contents) /\ alt_url # NoUrl

\* download_rdmanifest from 'if not contents: raise' on: DownloadFailed names
\* the URLs asked, else the manifest is loaded and returned with the URL it
\* came from.
download_rdmanifest_load(fetched, download_url, last) ==
    IF no_contents(last.contents)
      THEN [exc |-> "DownloadFailed", named |-> fetched, error |-> last.error,
            manifest |-> EmptyManifest, download_url |-> NoUrl, fetched |-> fetched]
    ELSE [exc |-> load_rdmanifest(last.contents).exc, named |-> <<>>, error |-> "",
          manifest |-> load_rdmanifest(last.contents).manifest,
          download_url |-> IF load_rdmanifest(last.contents).exc = "None"
                             THEN download_url ELSE NoUrl,
          fetched |-> fetched]

\* download_rdmanifest after the primary fetch: the backup URL is tried when
\* there are no contents and a backup URL is given, on the repository as it
\* is when that second 'jf rt dl' runs.
download_rdmanifest_retry(url, md5sum, alt_url, remote_alt, first) ==
    IF try_alt_url(first.contents, alt_url)
      THEN CHOOSE out \in {download_rdmanifest_load(<<url, alt_url>>, alt_url, last) :
                             last \in {fetch_file(alt_url, md5sum, remote_alt)}} : TRUE
    ELSE download_rdmanifest_load(<<url>>, url, first)

\* download_rdmanifest: the manifest and the URL it came from, with the URLs
\* fetched, in order.  Each fetch_file runs 'jf rt dl' and waits for it: the
\* primary URL is fetched from the repository as it is then (remote), the
\* backup URL from the repository as it is later (remote_alt).
download_rdmanifest(url, md5sum, alt_url, remote, remote_alt) ==
    CHOOSE out \in {download_rdmanifest_retry(url, md5sum, alt_url, remote_alt, first) :
                      first \in {fetch_file(url, md5sum, remote)}} : TRUE

\* JFrogInstall.from_manifest: a manifest that is no mapping has no get, a
\* mapping without 'uri' is an invalid manifest.
from_manifest(manifest, manifest_url) ==
    IF manifest.yaml # "mapping"
      THEN [exc |-> "AttributeError", resolved |-> <<>>]
    ELSE IF ~manifest.has_uri
      THEN [exc |-> "InvalidRdmanifest", resolved |-> <<>>]
    ELSE [exc |-> "None",
          resolved |-> <<[manifest_url |-> manifest_url, tarball |-> manifest.uri,
                          alternate_tarball |-> manifest.alternate_uri,
                          tarball_md5sum |-> manifest.md5sum,
                          dependencies |-> IF manifest.has_depends THEN manifest.depends
                                           ELSE <<>>]>>]

\* The rosdep_args of the model: 'uri', 'alternate-uri', 'md5sum' and
\* 'depends', each given or not.
NoArgs == [has_uri |-> FALSE, uri |-> NoUrl, alt_url |-> NoUrl, md5sum |-> NoValue,
           has_depends |-> FALSE, depends |-> <<>>]
RosdepArgs ==
    {[has_uri |-> TRUE, uri |-> u, alt_url |-> a, md5sum |-> m, has_depends |-> h,
      depends |-> IF h THEN <<"k1">> ELSE <<>>] :
        u \in ManifestUrls, a \in {NoUrl} \cup ManifestUrls, m \in {NoValue, "x1"},
        h \in BOOLEAN}
    \cup {[NoArgs EXCEPT !.has_depends = h, !.depends = IF h THEN <<"k1">> ELSE <<>>] :
            h \in BOOLEAN}

NoCache == <<>>

\* A cache that is asked for the primary URL only.
cache_key_primary_only(url, alt_url, cache) == IF url \in DOMAIN cache THEN url ELSE NoUrl

\* The key resolve finds in the cache: the primary URL, else the mirror URL.
cache_key(url, alt_url, cache) ==
    IF url \in DOMAIN cache THEN url
    ELSE IF alt_url \in DOMAIN cache THEN alt_url
    ELSE NoUrl

\* What a resolve that raises leaves: the cache as it was.
resolve_failed(exc, cache, fetched, named) ==
    [exc |-> exc, result |-> <<>>, cache |-> cache, fetched |-> fetched, named |-> named]

\* resolve from the download on: DownloadFailed and InvalidRdmanifest become
\* InvalidData, and a manifest made is cached under the URL it came from.
resolve_download(cache, down, made) ==
    IF down.exc \in {"DownloadFailed", "InvalidRdmanifest"}
      THEN resolve_failed("InvalidData", cache, down.fetched, down.named)
    ELSE IF down.exc # "None" THEN resolve_failed(down.exc, cache, down.fetched, <<>>)
    ELSE IF made.exc = "InvalidRdmanifest"
      THEN resolve_failed("InvalidData", cache, down.fetched, <<>>)
    ELSE IF made.exc # "None" THEN resolve_failed(made.exc, cache, down.fetched, <<>>)
    ELSE [exc |-> "None", result |-> made.resolved,
          cache |-> [u \in DOMAIN cache \cup {down.download_url} |->
                        IF u = down.download_url THEN made.resolved ELSE cache[u]],
          fetched |-> down.fetched, named |-> <<>>]

\* JFrogInstaller.resolve: what it raises or returns, the cache after the
\* call and the URLs it fetched, the primary from remote and the backup from
\* remote_alt.
resolve(rosdep_args, cache, remote, remote_alt) ==
    IF ~rosdep_args.has_uri THEN resolve_failed("InvalidData", cache, <<>>, <<>>)
    ELSE IF cache_key(rosdep_args.uri, rosdep_args.alt_url, cache) # NoUrl
      THEN [exc |-> "None",
            result |-> cache[cache_key(rosdep_args.uri, rosdep_args.alt_url, cache)],
            cache |-> cache, fetched |-> <<>>, named |-> <<>>]
    ELSE CHOOSE out \in
           {resolve_download(cache, down, from_manifest(down.manifest, down.download_url)) :
              down \in {download_rdmanifest(rosdep_args.uri, rosdep_args.md5sum,
                                            rosdep_args.alt_url, remote, remote_alt)}} : TRUE

\* A list that extend leaves as it is.
extend_nothing(deps, dependencies) == deps

\* deps.extend(r.dependencies)
extend(deps, dependencies) == deps \o dependencies

\* get_depends after resolve: deps is the list rosdep_args holds under
\* 'depends' when it holds one, and extend adds to that very list.
get_depends_extend(rosdep_args, r, deps) ==
    IF r.exc # "None"
      THEN [exc |-> r.exc, result |-> <<>>, cache |-> r.cache, fetched |-> r.fetched,
            named |-> r.named, resolved |-> <<>>, rosdep_args |-> rosdep_args]
    ELSE [exc |-> "None", result |-> extend(deps, r.result[1].dependencies),
          cache |-> r.cache, fetched |-> r.fetched, named |-> r.named,
          resolved |-> r.result,
          rosdep_args |-> IF rosdep_args.has_depends
                            THEN [rosdep_args EXCEPT
                                    !.depends = extend(deps, r.result[1].dependencies)]
                          ELSE rosdep_args]

\* JFrogInstaller.get_depends
get_depends(rosdep_args, cache, remote, remote_alt) ==
    CHOOSE out \in
      {get_depends_extend(rosdep_args, r,
                          IF rosdep_args.has_depends THEN rosdep_args.depends ELSE <<>>) :
         r \in {resolve(rosdep_args, cache, remote, remote_alt)}} : TRUE

\* resolve, with what get_depends keeps of it.
resolve_call(rosdep_args, cache, remote, remote_alt) ==
    CHOOSE out \in
      {[exc |-> r.exc, result |-> <<>>, cache |-> r.cache, fetched |-> r.fetched,
        named |-> r.named, resolved |-> r.result, rosdep_args |-> rosdep_args] :
         r \in {resolve(rosdep_args, cache, remote, remote_alt)}} : TRUE

\* The call reaches the second fetch_file of download_rdmanifest: it has a
\* 'uri', finds no key in the cache, and the fetch of the primary URL yields
\* no contents while a backup URL is given.
fetches_alternate(rosdep_args, cache, remote) ==
    /\ rosdep_args.has_uri
    /\ cache_key(rosdep_args.uri, rosdep_args.alt_url, cache) = NoUrl
    /\ try_alt_url(fetch_file(rosdep_args.uri, rosdep_args.md5sum, remote).contents,
                   rosdep_args.alt_url)

NoResolverCall ==
    [op |-> "none", rosdep_args |-> NoArgs, exc |-> "None", resolved |-> <<>>,
     depends |-> <<>>, cache_before |-> NoCache, fetched |-> <<>>, named |-> <<>>,
     remote |-> [u \in ManifestUrls |-> NotServed],
     remote_alt |-> [u \in ManifestUrls |-> NotServed]]

\* No call is between its two fetches.
NoPending == [op |-> "none", rosdep_args |-> NoArgs,
              remote |-> [u \in ManifestUrls |-> NotServed]]

IdleResolver ==
    /\ x_remote = [u \in ManifestUrls |-> NotServed]
    /\ x_cache = NoCache
    /\ x_downloads = <<>>
    /\ x_args = NoArgs
    /\ x_call = NoResolverCall
    /\ x_calls = 0
    /\ x_pc = "idle"
    /\ x_pending = NoPending

\* A new JFrogInstaller, and a repository that holds any of the files of the
\* model for each manifest URL.
InitResolver ==
    /\ x_remote \in [ManifestUrls -> ManifestFiles]
    /\ x_cache = NoCache
    /\ x_downloads = <<>>
    /\ x_args = NoArgs
    /\ x_call = NoResolverCall
    /\ x_calls = 0
    /\ x_pc = "idle"
    /\ x_pending = NoPending

\* The fetch_file calls of one resolve, in order, the k-th made on the
\* repository remotes[k].  'jf rt dl' runs in each of them; it downloads the
\* file when the repository holds one, before the md5sum is looked at, so a
\* download that is rejected for its md5sum is a download made.  Each call is
\* kept with whether the file was downloaded, the file the repository held,
\* whether fetch_file yielded contents, and whether the resolve returned the
\* manifest that fetch yielded, which is the last one's.
downloads_of(fetched, md5sum, remotes, r) ==
    [k \in 1..Len(fetched) |->
        [url |-> fetched[k],
         downloaded |-> remotes[k][fetched[k]].served,
         file |-> remotes[k][fetched[k]],
         contents |-> ~no_contents(fetch_file(fetched[k], md5sum, remotes[k]).contents),
         resolved |-> /\ r.exc = "None"
                      /\ k = Len(fetched)
                      /\ r.resolved[1].manifest_url = fetched[k]]]

\* The 'jf rt dl' of _sub_fetch_file: a file the repository holds is written
\* under the current directory, at the last four parts of its URL.
sub_fetch_file_download(url, file, dirs, files) ==
    LET f == url_filename(url)
    IN  IF file.served
          THEN [dirs |-> dirs \cup ancestors(dirname(f)),
                files |-> {x \in files : x.name # f} \cup
                          {[name |-> f, digest |-> file.digest, archive |-> FALSE]}]
        ELSE [dirs |-> dirs, files |-> files]

\* The current directory after the downloads of the URLs fetched, in order.
RECURSIVE downloaded_into(_, _, _, _)
downloaded_into(fetched, remote, dirs, files) ==
    IF fetched = <<>> THEN [dirs |-> dirs, files |-> files]
    ELSE downloaded_into(Tail(fetched), remote,
            sub_fetch_file_download(Head(fetched), remote[Head(fetched)], dirs, files).dirs,
            sub_fetch_file_download(Head(fetched), remote[Head(fetched)], dirs, files).files)

\* The call returns or raises: the cache, the dict it was given, and what is
\* kept of the call.
resolver_return(op, rosdep_args, r, remote, remote_alt) ==
    /\ x_cache' = r.cache
    /\ x_downloads' = x_downloads
                          \o downloads_of(r.fetched, rosdep_args.md5sum,
                                          <<remote, remote_alt>>, r)
    /\ x_args' = r.rosdep_args
    /\ x_call' = [op |-> op, rosdep_args |-> rosdep_args, exc |-> r.exc,
                  resolved |-> r.resolved, depends |-> r.result,
                  cache_before |-> x_cache, fetched |-> r.fetched,
                  named |-> r.named, remote |-> remote, remote_alt |-> remote_alt]
    /\ x_calls' = x_calls + 1
    /\ x_pc' = "idle"
    /\ x_pending' = NoPending

\* The call up to its return or, when download_rdmanifest goes on to the
\* backup URL, up to the end of the 'jf rt dl' of the primary URL.
resolver_call(op, rosdep_args) ==
    /\ IF fetches_alternate(rosdep_args, x_cache, x_remote)
         THEN /\ x_pc' = "fetch_alternate"
              /\ x_pending' = [op |-> op, rosdep_args |-> rosdep_args, remote |-> x_remote]
              /\ i_dirs' = downloaded_into(<<rosdep_args.uri>>, x_remote, i_dirs, i_files).dirs
              /\ i_files' = downloaded_into(<<rosdep_args.uri>>, x_remote, i_dirs, i_files).files
              /\ UNCHANGED <<x_cache, x_downloads, x_args, x_call, x_calls>>
       ELSE \E r \in {IF op = "resolve"
                         THEN resolve_call(rosdep_args, x_cache, x_remote, x_remote)
                       ELSE get_depends(rosdep_args, x_cache, x_remote, x_remote)} :
               /\ resolver_return(op, rosdep_args, r, x_remote, x_remote)
               /\ i_dirs' = downloaded_into(r.fetched, x_remote, i_dirs, i_files).dirs
               /\ i_files' = downloaded_into(r.fetched, x_remote, i_dirs, i_files).files
    /\ UNCHANGED x_remote
    /\ UNCHANGED <<i_pc, i_presence, i_commands, i_resolved, i_remote, i_filename, i_hash1,
                   i_hash2, i_exc, i_failure, i_steps>>
    /\ UNCHANGED <<updVars, rdrVars, ldrVars, matVars, prsVars, webVars>>

\* resolve is called, with new arguments or with the dict of the last call.
resolver_resolve ==
    /\ x_pc = "idle"
    /\ x_calls < MaxCalls
    /\ \E rosdep_args \in RosdepArgs \cup {x_args} : resolver_call("resolve", rosdep_args)

\* get_depends is called, with new arguments or with the dict of the last call.
resolver_get_depends ==
    /\ x_pc = "idle"
    /\ x_calls < MaxCalls
    /\ \E rosdep_args \in RosdepArgs \cup {x_args} : resolver_call("get_depends", rosdep_args)

\* The second fetch_file of download_rdmanifest: 'jf rt dl' runs for the
\* backup URL on the repository as it is now, and the call goes on to its
\* return.
resolver_fetch_alternate ==
    /\ x_pc = "fetch_alternate"
    /\ \E r \in {IF x_pending.op = "resolve"
                    THEN resolve_call(x_pending.rosdep_args, x_cache, x_pending.remote, x_remote)
                  ELSE get_depends(x_pending.rosdep_args, x_cache, x_pending.remote, x_remote)} :
          resolver_return(x_pending.op, x_pending.rosdep_args, r, x_pending.remote, x_remote)
    /\ i_dirs' = downloaded_into(<<x_pending.rosdep_args.alt_url>>, x_remote, i_dirs, i_files).dirs
    /\ i_files' = downloaded_into(<<x_pending.rosdep_args.alt_url>>, x_remote, i_dirs, i_files).files
    /\ UNCHANGED x_remote
    /\ UNCHANGED <<i_pc, i_presence, i_commands, i_resolved, i_remote, i_filename, i_hash1,
                   i_hash2, i_exc, i_failure, i_steps>>
    /\ UNCHANGED <<updVars, rdrVars, ldrVars, matVars, prsVars, webVars>>

\* The manifest others publish at a URL of the repository.
PublishedManifest == ManifestFile("mapping", TRUE, TRUE, <<"k2">>, "x1")

\* The repository changes between two calls on the installer, or between the
\* two 'jf rt dl' runs of one call: a manifest is published at a URL that
\* held none, or in the place of the file the URL held.
repository_publish ==
    /\ \/ x_pc = "idle" /\ 1 <= x_calls /\ x_calls < MaxCalls
       \/ x_pc = "fetch_alternate"
    /\ \E u \in ManifestUrls :
         /\ x_remote[u] # PublishedManifest
         /\ x_remote' = [x_remote EXCEPT ![u] = PublishedManifest]
    /\ UNCHANGED <<x_cache, x_downloads, x_args, x_call, x_calls, x_pc, x_pending>>
    /\ UNCHANGED <<updVars, rdrVars, ldrVars, matVars, insVars, prsVars, webVars>>

\* The manifests the repository may hold when the command is run: any of the
\* files of the model, or a mapping with the 'uri', 'alternate-uri' and
\* 'md5sum' of a JFrogInstall of the model.
InstallManifests ==
    ManifestFiles \cup
    {[ManifestFile("mapping", TRUE, FALSE, <<>>, "x2") EXCEPT
         !.uri = r.tarball, !.alternate_uri = r.alternate_tarball,
         !.md5sum = r.tarball_md5sum] : r \in Resolved}

\* The manifest file of the repository, and of the machine, for the pipeline.
InitPipelineManifest ==
    /\ x_remote \in {[u \in ManifestUrls |-> IF u = ManifestUrl THEN f ELSE NotServed] :
                        f \in InstallManifests}
    /\ x_cache = NoCache
    /\ x_downloads = <<>>
    /\ x_args = NoArgs
    /\ x_call = NoResolverCall
    /\ x_calls = 0
    /\ x_pc = "idle"
    /\ x_pending = NoPending

\* install_from_url and install_from_file up to the call of install_source:
\* what load_rdmanifest or from_manifest raises, or the JFrogInstall made.
install_from_manifest(loaded, manifest_url) ==
    IF loaded.exc # "None" THEN [exc |-> loaded.exc, resolved |-> <<>>]
    ELSE from_manifest(loaded.manifest, manifest_url)

\* The command is run: install_from_url downloads the manifest of the command
\* into the current directory, makes the JFrogInstall of it and calls
\* install_source, unless the download, the loading or from_manifest raises.
pipeline_install_from_url ==
    /\ i_pc = "command"
    /\ \E down \in {download_rdmanifest(i_commands[1][3], NoValue, NoUrl, x_remote, x_remote)} :
         \E made \in {install_from_manifest(down, down.download_url)} :
            /\ i_dirs' = downloaded_into(down.fetched, x_remote, i_dirs, i_files).dirs
            /\ i_files' = downloaded_into(down.fetched, x_remote, i_dirs, i_files).files
            /\ i_exc' = made.exc
            /\ IF made.exc = "None"
                 THEN i_pc' = "start" /\ i_resolved' = made.resolved[1]
               ELSE i_pc' = "raised" /\ UNCHANGED i_resolved
    /\ UNCHANGED <<i_presence, i_commands, i_remote, i_filename, i_hash1,
                   i_hash2, i_failure, i_steps>>
    /\ UNCHANGED <<updVars, rdrVars, ldrVars, matVars, resVars, prsVars, webVars>>

\* The path of a manifest file on the machine.
ManifestPath == <<"pkg.rdmanifest">>

\* install_from_file on a manifest file of the machine: the file is read,
\* the JFrogInstall is made of it and install_source is called, unless the
\* file cannot be opened or the loading or from_manifest raises.
pipeline_install_from_file ==
    /\ i_pc = "not_started"
    /\ \E file \in InstallManifests :
         \E made \in {IF ~file.served THEN [exc |-> "IOError", resolved |-> <<>>]
                      ELSE install_from_manifest(load_rdmanifest(file), ManifestPath)} :
            /\ i_exc' = made.exc
            /\ IF made.exc = "None"
                 THEN i_pc' = "start" /\ i_resolved' = made.resolved[1]
               ELSE i_pc' = "raised" /\ UNCHANGED i_resolved
    /\ UNCHANGED <<i_presence, i_commands, i_remote, i_filename, i_hash1,
                   i_hash2, i_failure, i_dirs, i_files, i_steps>>
    /\ UNCHANGED <<updVars, rdrVars, ldrVars, matVars, resVars, prsVars, webVars>>

-----------------------------------------------------------------------------
(* The specifications. *)

vars == <<updVars, rdrVars, ldrVars, matVars, insVars, resVars, prsVars, webVars>>

IdleUpdate ==
    /\ sources_list_dir = [exists |-> FALSE, files |-> <<>>]
    /\ InitUpdateState

\* update_sources_list, run up to MaxUpdates times one after the other.
Init ==
    InitUpdate /\ InitReader /\ InitLoader /\ IdleMatch /\ IdleInstall /\ IdleResolver
    /\ IdleParse /\ web = ChangingWeb

Next ==
    \/ update_begin
    \/ update_parse_file
    \/ update_fetch
    \/ update_flush_cache_file
    \/ update_write_cache_file
    \/ update_open_index
    \/ update_flush_index
    \/ update_close_index

Spec == Init /\ [][Next]_vars

\* The same with a reader that calls load_cached_sources_list at any point.
NextReader ==
    \/ update_begin
    \/ update_parse_file
    \/ update_fetch
    \/ update_flush_cache_file
    \/ update_write_cache_file
    \/ update_open_index
    \/ update_flush_index
    \/ update_close_index
    \/ reader_load
    \/ reader_entry
    \/ reader_return

\* For a load of the cache, the sources list directories whose lines are all
\* lines of sources, in the first file: what the load meets is the same
\* wherever the lines stand.
LoaderListDirs ==
    {d \in ListDirs :
        /\ d.exists
        /\ d.files["20.list"] = <<>>
        /\ \A k \in 1..Len(d.files["10.list"]) :
              /\ Len(d.files["10.list"][k]) >= 2
              /\ DataSource(d.files["10.list"][k][1], d.files["10.list"][k][2], <<>>, <<>>).exc
                    = "None"}

\* For the reader, those of them whose lines are the line of a source
\* without tags or the line of a source of the other type, with a tag.
ReaderListDirs ==
    {d \in LoaderListDirs :
        \A k \in 1..Len(d.files["10.list"]) :
           d.files["10.list"][k] \in {<<"yaml", UrlA>>, <<"gbpdistro", UrlB, "debian">>}}

InitReaderAll == Init /\ sources_list_dir \in ReaderListDirs

SpecReader == InitReaderAll /\ [][NextReader]_vars

\* update_sources_list is between the parsing of the sources list and its
\* return.
Updating == u_pc \in {"loop", "write_cache_file", "write_index"}

\* update_sources_list is not called yet, or has returned or raised.
NoUpdateRuns == u_pc \in {"idle", "returned", "raised"}

\* One update_sources_list and a SourcesListLoader that create_default builds
\* from the cache, before the update, while it runs or after it.  The loader
\* holds what it loaded, so what the update does once the loader is built
\* cannot change it and is left out.  The calls on the loader, whose outcome
\* rests on the loader and the database only, are followed for the loaders
\* built while no update runs.
NextLoader ==
    \/ ~l_made /\ u_runs = 0 /\ update_begin
    \/ ~l_made /\ update_parse_file
    \/ ~l_made /\ update_fetch
    \/ ~l_made /\ update_flush_cache_file
    \/ ~l_made /\ update_write_cache_file
    \/ ~l_made /\ update_open_index
    \/ ~l_made /\ update_flush_index
    \/ ~l_made /\ update_close_index
    \/ ~l_made /\ reader_load
    \/ reader_entry
    \/ loader_create_default
    \/ NoUpdateRuns /\ loader_load_view
    \/ NoUpdateRuns /\ loader_get_view_dependencies
    \/ NoUpdateRuns /\ loader_get_rosdeps
    \/ NoUpdateRuns /\ loader_get_view_key
    \/ NoUpdateRuns /\ other_loader_load_view

InitLoaderAll == Init /\ sources_list_dir \in LoaderListDirs

SpecLoader == InitLoaderAll /\ [][NextLoader]_vars

\* DataSourceMatcher.matches on every matcher and source of the model.
InitMatcher ==
    IdleUpdate /\ InitReader /\ InitLoader /\ InitMatch /\ IdleInstall /\ IdleResolver
    /\ IdleParse /\ web = ChangingWeb

NextMatcher == matcher_matches

SpecMatcher == InitMatcher /\ [][NextMatcher]_vars

\* install_source on every JFrogInstall and repository of the model.
InitInstaller ==
    IdleUpdate /\ InitReader /\ InitLoader /\ IdleMatch /\ InitInstall /\ IdleResolver
    /\ IdleParse /\ web = ChangingWeb

NextInstaller ==
    \/ install_fetch
    \/ install_verify
    \/ install_fetch_alternate
    \/ install_extract
    \/ install_execute

SpecInstaller == InitInstaller /\ [][NextInstaller]_vars

\* The installation of one JFrogInstall from get_install_command on: the
\* presence check, then the command it returned, which runs install_source.
InitPipelineAll ==
    IdleUpdate /\ InitReader /\ InitLoader /\ IdleMatch /\ InitPipeline
    /\ InitPipelineManifest /\ IdleParse /\ web = ChangingWeb

NextPipeline ==
    \/ pipeline_get_install_command
    \/ pipeline_install_from_url
    \/ pipeline_install_from_file
    \/ install_fetch
    \/ install_verify
    \/ install_fetch_alternate
    \/ install_extract
    \/ install_execute

SpecPipeline == InitPipelineAll /\ [][NextPipeline]_vars

\* update_sources_list run up to MaxUpdates times, the sources list being
\* edited between the runs.
NextEdited ==
    \/ update_begin
    \/ update_parse_file
    \/ update_fetch
    \/ update_flush_cache_file
    \/ update_write_cache_file
    \/ update_open_index
    \/ update_flush_index
    \/ update_close_index
    \/ sources_list_edit

SpecEdited == Init /\ [][NextEdited]_vars

\* parse_sources_list called once on any directory of the model, the
\* directory being edited while it reads the files.
InitParse ==
    InitUpdate /\ InitReader /\ InitLoader /\ IdleMatch /\ IdleInstall /\ IdleResolver
    /\ IdleParse /\ web = ChangingWeb

NextParse ==
    \/ parse_sources_list_call
    \/ parse_sources_list_file
    \/ sources_list_edit

SpecParse == InitParse /\ [][NextParse]_vars

\* update_sources_list run up to MaxUpdates times while neither the sources
\* list nor what the web serves changes.
InitSteady ==
    InitUpdate /\ InitReader /\ InitLoader /\ IdleMatch /\ IdleInstall /\ IdleResolver
    /\ IdleParse /\ web \in SteadyWebs

NextSteady ==
    \/ update_begin
    \/ update_parse_file
    \/ update_fetch
    \/ update_flush_cache_file
    \/ update_write_cache_file
    \/ update_open_index
    \/ update_flush_index
    \/ update_close_index

SpecSteady == InitSteady /\ [][NextSteady]_vars

\* resolve and get_depends called on one JFrogInstaller, up to MaxCalls times,
\* the repository changing between the calls and between the two fetches of
\* a call.
InitResolverAll ==
    IdleUpdate /\ InitReader /\ InitLoader /\ IdleMatch /\ IdleInstall /\ InitResolver
    /\ IdleParse /\ web = ChangingWeb

NextResolver ==
    \/ resolver_resolve
    \/ resolver_get_depends
    \/ resolver_fetch_alternate
    \/ repository_publish

SpecResolver == InitResolverAll /\ [][NextResolver]_vars

-----------------------------------------------------------------------------
(* The claims. *)

\* What the claims compare sources by: URL and tags, in order.
url_and_tags(source) == <<source.url, source.tags>>
Keys(sources) == [i \in 1..Len(sources) |-> url_and_tags(sources[i])]
CachedKeys(cached) == [i \in 1..Len(cached) |-> url_and_tags(cached[i].source)]

\* The sources the sources list directory configures.
Configured == parse_sources_list(sources_list_dir, SortedFileNames).sources

InstallEnded == i_pc \in {"returned", "raised"}

\* C1: whichever way install_source ends, the working directory derived from
\* the tarball URL does not exist when it returns or raises.
C1_WorkdirRemovedOnEveryExit ==
    InstallEnded => tempdir_of(i_resolved) \notin i_dirs

\* An update_sources_list that found its sources list valid is over.
UpdateOver == u_pc \in {"returned", "raised"} /\ u_exc # "InvalidData"

\* C2: when an update_sources_list of a valid sources list is over, every
\* source was fetched, and every source whose fetch succeeded had its cache
\* entry written by this run and has it in the cache, wherever the failing
\* sources stand in the list.
C2_FailureNeverStopsTheLoop ==
    UpdateOver =>
        /\ Len(u_outcomes) = Len(Configured)
        /\ \A i \in 1..Len(Configured) :
              u_outcomes[i] =>
                  /\ \E k \in 1..Len(u_events) : u_events[k] = <<"write_cache_file", i>>
                  /\ \E k \in 1..Len(u_retval) : u_retval[k][1] = i
                  /\ LET entry == cache_files[compute_filename_hash(Configured[i].url)]
                     IN  entry.exists /\ is_dict(yaml_load(entry.text).value)

\* C3: after update_sources_list returns, the index holds its header and
\* exactly one line per configured source, in the configured order, that
\* reads back as the source's URL and tags, failed sources included.
C3_IndexListsEveryConfiguredSource ==
    u_pc = "returned" =>
        /\ cache_index.exists
        /\ Len(cache_index.text) = 1 + Len(Configured)
        /\ startswith_hash(cache_index.text[1][1])
        /\ LET read == parse_sources_data(cache_index.text, <<"index">>, DefaultModel)
           IN  read.exc = "None" /\ Keys(read.sources) = Keys(Configured)

\* C3 happens: an update has returned with a failed and a fetched source, one
\* of them with tags.
C3_Witness ==
    /\ u_pc = "returned"
    /\ Len(Configured) = 2
    /\ u_outcomes = <<TRUE, FALSE>>
    /\ Configured[2].tags # <<>>

\* The sources of this run with the URL of source i that were fetched.
FetchedWithUrlOf(i) ==
    {j \in 1..Len(u_outcomes) : u_sources[j].url = u_sources[i].url /\ u_outcomes[j]}

\* The cache entry of source i is as it was when this run began, and
\* load_cached_sources_list returns its earlier data for the source.
StaleEntryKept(i) ==
    LET key == compute_filename_hash(u_sources[i].url)
        loaded == load_cached_sources_list(cache_files, cache_index)
    IN  /\ cache_files[key] = u_pre.files[key]
        /\ loaded.exc = "None"
        /\ loaded.sources[i].source.url = u_sources[i].url
        /\ loaded.sources[i].rosdep_data = yaml_load(u_pre.files[key].text).value

HasStaleEntry(i) ==
    LET before == u_pre.files[compute_filename_hash(u_sources[i].url)]
    IN  before.exists /\ is_dict(yaml_load(before.text).value)

\* C4 as stated: whenever a source's fetch failed and the cache held an entry
\* for its URL from an earlier update, the entry is unchanged when the update
\* returns and is what load_cached_sources_list returns for the source.
C4_AsStated ==
    u_pc = "returned" =>
        \A i \in 1..Len(u_sources) :
            ~u_outcomes[i] /\ HasStaleEntry(i) => StaleEntryKept(i)

\* C4, amended: the same, for a source no other line of the sources list
\* with the same URL was fetched for in this update.
C4_StaleEntryKeptUnlessUrlFetched ==
    u_pc = "returned" =>
        \A i \in 1..Len(u_sources) :
            ~u_outcomes[i] /\ HasStaleEntry(i) /\ FetchedWithUrlOf(i) = {} =>
                StaleEntryKept(i)

\* C4 happens: the second update has returned, a fetch of it failed for a URL
\* the first update had cached, and another source was fetched.
C4_Witness ==
    /\ u_pc = "returned"
    /\ u_runs = 2
    /\ Len(u_sources) = 2
    /\ u_outcomes = <<FALSE, TRUE>>
    /\ HasStaleEntry(1)
    /\ FetchedWithUrlOf(1) = {}

\* The URL and tags of each source an index lists, in order.
IndexedKeys(index) ==
    CachedKeys(load_cached_sources_list([k \in CacheKeys |-> NoFile], index).sources)

\* C5: the index a reader reads while update_sources_list runs lists the
\* sources of the index as it was before the update, or those of the index the
\* update writes; never none or some of them only.
C5_ReaderSeesOldOrNewIndex ==
    [][reader_load /\ Updating =>
         \/ IndexedKeys(cache_index) = IndexedKeys(u_pre.index)
         \/ IndexedKeys(cache_index) = Keys(u_sources)
      ]_vars

\* C6: matches returns true if and only if every tag of the source is among
\* the matcher's tags.
C6_MatchesIffEveryTagInMatcher ==
    m_pc = "returned" => (m_result <=> set_of(m_source_tags) \subseteq set_of(m_tags))

\* The configured sources all of whose tags are among the given tags.
ConfiguredWithin(tags) ==
    SelectSeq(Configured, LAMBDA x : set_of(x.tags) \subseteq set_of(tags))

\* C7: the sources retained by a loader that create_default makes of a load
\* begun after an update has returned are exactly the configured sources
\* whose tags are all among the matcher's, in order.
C7_RetainedAreTheSourcesWithinTheMatcher ==
    [][loader_create_default /\ r_loaded.after_update /\ l_made' =>
          CachedKeys(l_sources') = Keys(ConfiguredWithin(l_matcher'))]_vars

RetainedUrls == {l_sources[i].source.url : i \in 1..Len(l_sources)}

\* C8: get_view_dependencies returns no dependency for the URL of a retained
\* source, and the URLs of all retained sources, in order, for 'sources.list'
\* and for every other name.
C8_ViewDependencies ==
    l_call.op = "get_view_dependencies" =>
        IF l_call.arg \in RetainedUrls THEN l_call.result = <<>>
        ELSE /\ Len(l_call.result) = Len(l_sources)
             /\ \A i \in 1..Len(l_sources) : l_call.result[i] = l_sources[i].source.url

\* C8 happens: the dependencies of 'sources.list' were asked of a loader that
\* retains two sources.
C8_Witness ==
    /\ l_call.op = "get_view_dependencies"
    /\ l_call.arg = ALL_VIEW_KEY
    /\ Len(l_call.result) = 2

\* C9: load_view of a view the database already marks loaded raises nothing
\* and leaves the database as it was, also for a name that matches no
\* retained source.
C9_LoadViewOfLoadedViewIsNoOp ==
    l_call.op = "load_view" /\ l_call.arg \in DOMAIN l_call.db_before =>
        l_call.exc = "None" /\ rosdep_db = l_call.db_before

\* C9 happens: load_view was called for the URL of a retained source that the
\* database already held, with data.
C9_Witness ==
    /\ l_call.op = "load_view"
    /\ l_call.arg \in DOMAIN l_call.db_before
    /\ l_call.arg \in RetainedUrls
    /\ l_calls = 2

\* C10: load_view of a view that is not loaded and matches no retained source
\* raises ResourceNotFound and leaves the database as it was; get_rosdeps and
\* get_view_key raise ResourceNotFound whatever the name.
C10_NotFound ==
    /\ l_call.op = "load_view" /\ l_call.arg \notin DOMAIN l_call.db_before
         /\ l_call.arg \notin RetainedUrls =>
            l_call.exc = "ResourceNotFound" /\ rosdep_db = l_call.db_before
    /\ l_call.op \in {"get_rosdeps", "get_view_key"} => l_call.exc = "ResourceNotFound"

\* C10 happens: load_view was called for 'sources.list' on a loader that
\* retains sources, with nothing loaded in the database.
C10_Witness ==
    /\ l_call.op = "load_view"
    /\ l_call.arg = ALL_VIEW_KEY
    /\ l_call.db_before = <<>>
    /\ l_sources # <<>>
    /\ l_call.exc = "ResourceNotFound"

\* C11: with a declared checksum the primary tarball's digest differs from
\* and an alternate tarball declared and served: if the alternate's digest
\* is the declared one the installation goes on with the alternate artifact
\* (extraction, install script) and no checksum failure is raised; if it
\* differs too, InstallFailed is raised with the expected checksum and both
\* observed digests, and the install script is not run.
C11_AlternateDecidesAfterPrimaryMismatch ==
    LET md5sum == i_resolved.tarball_md5sum
        primary == i_remote.tarball
        alternate == i_remote.alternate
    IN  /\ InstallEnded
        /\ md5sum # NoMd5
        /\ primary.served /\ primary.digest # md5sum
        /\ i_resolved.alternate_tarball # NoUrl /\ alternate.served
        => IF alternate.digest = md5sum
             THEN /\ i_filename = url_filename(i_resolved.alternate_tarball)
                  /\ i_exc = "InstallFailed" => i_failure = script_failure
                  /\ IF alternate.archive
                       THEN SeqHas(i_steps, "extract") /\ SeqHas(i_steps, "execute")
                     ELSE i_exc = "ReadError"
           ELSE /\ i_pc = "raised"
                /\ i_exc = "InstallFailed"
                /\ i_failure.expected = md5sum
                /\ i_failure.got = <<primary.digest, alternate.digest>>
                /\ ~SeqHas(i_steps, "execute")

\* C11 happens: the primary tarball had another digest than declared, the
\* alternate had the declared one, and the install script ran on it.
C11_Witness ==
    /\ i_pc = "returned"
    /\ i_resolved.tarball_md5sum = "m1"
    /\ i_remote.tarball.served /\ i_remote.tarball.digest = "m2"
    /\ i_resolved.alternate_tarball = TarballMirrorOtherDir
    /\ i_remote.alternate.digest = "m1"
    /\ i_hash2 = "m1"
    /\ SeqHas(i_steps, "execute")

\* C20: an install_source whose fetch of the primary tarball failed still
\* reaches the checksum verification step before it ends.
C20_FailedFetchReachesVerification ==
    InstallEnded /\ ~i_remote.tarball.served => SeqHas(i_steps, "verify")

\* C12: once the check-presence script of a unit has exited with code zero,
\* the unit is at its successful end, it got no command, and there is and
\* will be no tarball fetch, extraction or install script run for it.
C12_PresentUnitIsNotInstalled ==
    i_presence = "zero" =>
        /\ i_pc = "already_installed"
        /\ i_exc = "None"
        /\ i_commands = <<>>
        /\ i_steps = <<>>
        /\ i_files = {} /\ i_dirs = {}

\* C12 happens: the check-presence script exited with code zero for a unit
\* whose tarball the repository serves.
C12_Witness ==
    /\ i_presence = "zero"
    /\ i_pc = "already_installed"
    /\ i_remote.tarball.served

\* The repository yields contents for the URL: it holds a file for it that
\* is not empty and has the md5sum asked for, if one is asked for.
YieldsFrom(remote, url, md5sum) ==
    /\ remote[url].served
    /\ remote[url].yaml # "empty"
    /\ md5sum = NoValue \/ remote[url].digest = md5sum

\* The repository yields contents for the URL as it was when the last call
\* fetched, or would have fetched, its primary URL.
Yields(url, md5sum) == YieldsFrom(x_call.remote, url, md5sum)

\* The same, as the repository was when the last call fetched, or would have
\* fetched, its backup URL.
YieldsLater(url, md5sum) == YieldsFrom(x_call.remote_alt, url, md5sum)

\* The last call on the installer went to the cache and found a key there.
CacheHit ==
    /\ x_call.op # "none"
    /\ x_call.rosdep_args.has_uri
    /\ \/ x_call.rosdep_args.uri \in DOMAIN x_call.cache_before
       \/ x_call.rosdep_args.alt_url \in DOMAIN x_call.cache_before

\* C13 as stated: over the calls made on one installer, no manifest URL is
\* downloaded more than once, a download being any run of 'jf rt dl' that
\* fetched the file, whatever became of the file then.
C13_AsStated ==
    \A j, k \in 1..Len(x_downloads) :
        j # k /\ x_downloads[j].downloaded /\ x_downloads[k].downloaded
            => x_downloads[j].url # x_downloads[k].url

\* C13, amended: a call whose primary or mirror URL is in the cache returns
\* what the cache holds without any download and leaves the cache as it is,
\* whatever else its arguments hold; so no URL is fetched again after the
\* fetch a resolve returned its manifest from, and every URL the cache holds
\* has one such fetch, the last one of that URL.  Fetches of a URL before
\* that one are not bounded.
C13_CachedUrlIsNotDownloadedAgain ==
    /\ CacheHit =>
          /\ x_call.exc = "None"
          /\ x_call.fetched = <<>>
          /\ x_cache = x_call.cache_before
          /\ x_call.resolved
               = IF x_call.rosdep_args.uri \in DOMAIN x_call.cache_before
                   THEN x_call.cache_before[x_call.rosdep_args.uri]
                 ELSE x_call.cache_before[x_call.rosdep_args.alt_url]
    /\ \A j, k \in 1..Len(x_downloads) :
          j < k /\ x_downloads[j].url = x_downloads[k].url => ~x_downloads[j].resolved
    /\ \A u \in DOMAIN x_cache :
          \E j \in 1..Len(x_downloads) :
             /\ x_downloads[j].url = u
             /\ x_downloads[j].resolved
             /\ x_downloads[j].downloaded

\* C13 happens: the second resolve names as its mirror the URL the first one
\* was resolved from, with another md5sum and other 'depends', and its
\* primary URL is not in the cache.
C13_Witness ==
    /\ x_calls = 2
    /\ x_call.op = "resolve"
    /\ x_call.rosdep_args.uri \notin DOMAIN x_call.cache_before
    /\ x_call.rosdep_args.alt_url \in DOMAIN x_call.cache_before
    /\ x_call.rosdep_args.md5sum = "x1"
    /\ x_call.rosdep_args.has_depends
    /\ Len(x_downloads) = 1
    /\ x_call.exc = "None"

\* C14: download_rdmanifest, on the arguments of the last call and on the
\* repository as it was at each of its fetches: the mirror is fetched if and
\* only if the primary yielded no contents and a mirror is given, after the
\* primary; when neither yields contents DownloadFailed names both URLs; and
\* a manifest is returned with the URL its contents came from.  A call that
\* went to the repository fetched those URLs and returned that manifest.
C14_MirrorOnlyAfterPrimaryFailed ==
    x_call.op # "none" /\ x_call.rosdep_args.has_uri =>
        LET url == x_call.rosdep_args.uri
            alt_url == x_call.rosdep_args.alt_url
            md5sum == x_call.rosdep_args.md5sum
            d == download_rdmanifest(url, md5sum, alt_url, x_call.remote, x_call.remote_alt)
        IN  /\ d.fetched = IF ~Yields(url, md5sum) /\ alt_url # NoUrl
                             THEN <<url, alt_url>> ELSE <<url>>
            /\ ~Yields(url, md5sum) /\ alt_url # NoUrl /\ ~YieldsLater(alt_url, md5sum)
                 => d.exc = "DownloadFailed" /\ d.named = <<url, alt_url>>
            /\ d.exc = "None"
                 => /\ d.download_url = IF Yields(url, md5sum) THEN url ELSE alt_url
                    /\ d.manifest = IF Yields(url, md5sum) THEN x_call.remote[url]
                                    ELSE x_call.remote_alt[alt_url]
            /\ ~CacheHit
                 => /\ x_call.fetched = d.fetched
                    /\ x_call.exc = "None"
                         => /\ d.exc = "None"
                            /\ x_call.resolved[1].manifest_url = d.download_url

\* C14 happens: a resolve fetched the primary URL, that yielded nothing, then
\* the mirror, and the manifest it returned came from the mirror.
C14_Witness ==
    /\ x_call.op = "resolve"
    /\ x_call.fetched = <<ManifestUrl, ManifestMirror>>
    /\ ~Yields(ManifestUrl, x_call.rosdep_args.md5sum)
    /\ x_call.exc = "None"
    /\ x_call.resolved[1].manifest_url = ManifestMirror

\* C15: a resolve that fails raises InvalidData and leaves the cache as it
\* was.
C15_ResolveFailsWithInvalidDataOnly ==
    x_call.op = "resolve" /\ x_call.exc # "None" =>
        x_call.exc = "InvalidData" /\ x_cache = x_call.cache_before

\* The manifest a resolve returned from the URL: the file that was downloaded
\* from it by the call that put it in the cache.
ResolvedManifest(url) ==
    x_downloads[CHOOSE j \in 1..Len(x_downloads) :
                    x_downloads[j].url = url /\ x_downloads[j].resolved].file

\* C16: get_depends returns the keys of rosdep_args['depends'] followed by the
\* 'depends' of the manifest it resolved, and nothing else.  The manifest it
\* resolved is the file downloaded from the URL its result names, by this
\* call or by the earlier call whose result the cache kept.
C16_DependsAreExplicitThenManifest ==
    x_call.op = "get_depends" /\ x_call.exc = "None" =>
        LET explicit == IF x_call.rosdep_args.has_depends THEN x_call.rosdep_args.depends
                        ELSE <<>>
            manifest == ResolvedManifest(x_call.resolved[1].manifest_url)
            declared == IF manifest.has_depends THEN manifest.depends ELSE <<>>
        IN  /\ x_call.depends = explicit \o declared
            /\ set_of(x_call.depends) = set_of(explicit) \cup set_of(declared)

\* C16 happens: get_depends was called with 'depends' given, for a manifest
\* that declares 'depends' of its own.
C16_Witness ==
    /\ x_call.op = "get_depends"
    /\ x_call.exc = "None"
    /\ x_call.rosdep_args.depends = <<"k1">>
    /\ x_call.depends = <<"k1", "k2">>

\* C19: a load_cached_sources_list called when there is no index file
\* returns the empty list and raises nothing, whatever cache entry files
\* exist; and when it comes to an indexed line whose cache entry file does not
\* exist, it goes on with one more source, of the URL of the line, whose data
\* is None.  An indexed line is one that gives a type and a URL a DataSource
\* takes; the first part of one, cut inside the URL's scheme, is none.
C19_LoadWithoutIndexOrEntry ==
    [][/\ reader_load /\ ~cache_index.exists =>
            r_pc' = "returned" /\ r_loaded'.exc = "None" /\ r_loaded'.sources = <<>>
       /\ reader_entry
            /\ Len(strip(Head(r_todo))) >= 2
            /\ DataSource(strip(Head(r_todo))[1], strip(Head(r_todo))[2], <<>>, <<>>).exc = "None"
            /\ ~cache_files[compute_filename_hash(strip(Head(r_todo))[2])].exists =>
            /\ r_loaded'.exc = "None"
            /\ Len(r_loaded'.sources) = Len(r_loaded.sources) + 1
            /\ r_loaded'.sources[Len(r_loaded'.sources)].source.url = strip(Head(r_todo))[2]
            /\ r_loaded'.sources[Len(r_loaded'.sources)].rosdep_data = None
      ]_vars

\* C19 happens: load_cached_sources_list returned a source without data for
\* an indexed URL that has no cache entry file, next to one with data.
C19_Witness ==
    /\ r_pc = "returned"
    /\ r_loaded.exc = "None"
    /\ u_pc = "returned"
    /\ cache_index.exists
    /\ Len(r_loaded.sources) = 2
    /\ r_loaded.sources[1].rosdep_data = None
    /\ ~cache_files[compute_filename_hash(r_loaded.sources[1].source.url)].exists
    /\ r_loaded.sources[2].rosdep_data # None

\* The other case of C19 happens: load_cached_sources_list returned the empty
\* list while a written cache entry file existed and the index did not.
C19_WitnessNoIndex ==
    /\ r_pc = "returned"
    /\ r_loaded.exc = "None"
    /\ r_loaded.sources = <<>>
    /\ ~cache_index.exists
    /\ \E k \in CacheKeys : cache_files[k].exists /\ cache_files[k].text # <<>>

\* The lines of a sources list file that are neither empty nor comments, in
\* the order of the file, each as the origin, type, URL and tags it gives.
ReadFrom(dir, f) ==
    LET lines == SelectSeq(dir.files[f],
                           LAMBDA l : strip(l) # <<>> /\ ~startswith_hash(strip(l)[1]))
    IN  [k \in 1..Len(lines) |->
            <<path_join(SOURCES_LIST_DIR, <<f>>), strip(lines[k])[1], strip(lines[k])[2],
              SubSeq(strip(lines[k]), 3, Len(strip(lines[k])))>>]

AsRead(sources) ==
    [k \in 1..Len(sources) |->
        <<sources[k].origin, sources[k].type, sources[k].url, sources[k].tags>>]

\* A sequence is the first part of another.
IsPrefix(a, b) == Len(a) <= Len(b) /\ SubSeq(b, 1, Len(a)) = a

\* C18: parse_sources_list of a directory whose files are valid returns the
\* sources of '10.list' in the order of its lines, then those of '20.list' in
\* the order of its lines, comment and empty lines skipped, in whatever order
\* os.listdir gave the names; of a missing directory it returns the empty
\* list.  The lines of a file are those it held when it was read: all its
\* lines, but for the lines appended to it since, which come after them.
C18_SortedFileOrderThenLineOrder ==
    p_pc = "returned" =>
        /\ ~sources_list_dir.exists =>
              p_result.exc = "None" /\ p_result.sources = <<>>
        /\ sources_list_dir.exists /\ p_result.exc = "None" =>
              /\ AsRead(p_result.sources) =
                    ReadFrom(p_read, "10.list") \o ReadFrom(p_read, "20.list")
              /\ \A f \in FileNames : IsPrefix(p_read.files[f], sources_list_dir.files[f])

\* C18 happens: os.listdir gave '20.list' before '10.list', each file holds a
\* source, and the source of '10.list' came first.
C18_Witness ==
    /\ p_pc = "returned"
    /\ p_listing = <<"20.list", OtherFileName, "10.list">>
    /\ p_result.exc = "None"
    /\ Len(p_result.sources) = 2
    /\ p_result.sources[1].origin = path_join(SOURCES_LIST_DIR, <<"10.list">>)
    /\ p_result.sources[2].origin = path_join(SOURCES_LIST_DIR, <<"20.list">>)
    /\ p_result.sources[1].url # p_result.sources[2].url

\* The other case of C18 happens: parse_sources_list returned the empty list
\* for a directory that does not exist.
C18_WitnessNoDirectory ==
    /\ p_pc = "returned"
    /\ ~sources_list_dir.exists
    /\ p_result.sources = <<>>

\* C17: when update_sources_list has run before and runs again, the sources
\* list and what the web serves being what they were, then once it is over
\* every cache entry file and the index are as they were when it began, and
\* load_cached_sources_list returns what it returned then.
C17_SecondUpdateChangesNothing ==
    web.steady /\ u_runs >= 2 /\ u_pc \in {"returned", "raised"} =>
        /\ cache_files = u_pre.files
        /\ cache_index = u_pre.index
        /\ load_cached_sources_list(cache_files, cache_index)
             = load_cached_sources_list(u_pre.files, u_pre.index)

\* C17 happens: a second run is over that fetched one source and failed to
\* fetch another, and the cache holds an entry and an index of both.
C17_Witness ==
    /\ web.steady
    /\ u_runs = 2
    /\ u_pc = "returned"
    /\ u_outcomes = <<TRUE, FALSE>>
    /\ cache_index.exists
    /\ Len(load_cached_sources_list(cache_files, cache_index).sources) = 2
    /\ \E k \in CacheKeys : cache_files[k].exists
    /\ cache_files = u_pre.files
    /\ cache_index = u_pre.index

\* The handler calls and cache writes a run makes for the outcomes of its
\* sources, in list order: a write then the success handler for a fetch that
\* succeeded, the error handler for one that failed.
RECURSIVE OutcomeEvents(_, _)
OutcomeEvents(outcomes, i) ==
    IF i > Len(outcomes) THEN <<>>
    ELSE (IF outcomes[i] THEN <<<<"write_cache_file", i>>, <<"success_handler", i>>>>
          ELSE <<<<"error_handler", i>>>>)
         \o OutcomeEvents(outcomes, i + 1)

Succeeded(outcomes) == SelectSeq([i \in 1..Len(outcomes) |-> i], LAMBDA i : outcomes[i])

\* C21: when an update_sources_list of a valid sources list is over, every
\* configured source has had one outcome; the handler calls and cache writes are, source by source in
\* list order, the write of the entry then one call of the success handler
\* for a fetch that succeeded, one call of the error handler for a fetch that
\* failed; and the list returned pairs the sources that succeeded, in list
\* order, with the paths of their cache entries.
C21_OneOutcomePerSourceInOrder ==
    UpdateOver =>
        /\ Len(u_outcomes) = Len(u_sources)
        /\ u_events = OutcomeEvents(u_outcomes, 1)
        /\ u_retval =
             [k \in 1..Len(Succeeded(u_outcomes)) |->
                 <<Succeeded(u_outcomes)[k],
                   path_join(SOURCES_CACHE_DIR,
                             compute_filename_hash(u_sources[Succeeded(u_outcomes)[k]].url))>>]

\* The data a reader gets from a cache entry file that holds a complete
\* document, or from no file.
EntryData(file) == IF file.exists THEN yaml_load(file.text).value ELSE None

\* What the entry of the source being written may hold as complete contents:
\* the new data, what it held when the run began or, if a line of the same
\* URL was fetched earlier in the run, the data that was written then.
CompleteEntryData ==
    {u_data, EntryData(u_pre.files[compute_filename_hash(u_sources[u_i].url)])}
    \cup (IF \E j \in 1..(u_i - 1) : u_sources[j].url = u_sources[u_i].url /\ u_outcomes[j]
            THEN Dicts ELSE {})

\* C22: a load_cached_sources_list that loads the entry of a URL while
\* write_cache_file is writing that entry raises nothing and gets the data of
\* the complete previous contents of the entry or of the complete new ones.
C22_ReaderSeesOldOrNewEntry ==
    [][reader_entry /\ u_pc = "write_cache_file"
            /\ Len(strip(Head(r_todo))) >= 2
            /\ strip(Head(r_todo))[2] = u_sources[u_i].url =>
         /\ r_loaded'.exc = "None"
         /\ r_loaded'.sources[Len(r_loaded'.sources)].rosdep_data \in CompleteEntryData
      ]_vars

\* C23: a load_cached_sources_list called once update_sources_list has
\* returned gets one source per configured source, in order, each of type
\* 'yaml' with the URL and the tags of the configured source, whatever type
\* that one declares.
C23_LoadedSourcesAreYaml ==
    r_pc = "returned" /\ r_loaded.after_update /\ r_loaded.exc = "None" =>
        /\ Len(r_loaded.sources) = Len(Configured)
        /\ \A k \in 1..Len(r_loaded.sources) :
              /\ r_loaded.sources[k].source.type = TYPE_YAML
              /\ r_loaded.sources[k].source.url = Configured[k].url
              /\ r_loaded.sources[k].source.tags = Configured[k].tags

\* C23 happens: a source configured as 'gbpdistro' with a tag was loaded from
\* the cache as a 'yaml' source with that tag.
C23_Witness ==
    /\ r_pc = "returned"
    /\ r_loaded.after_update
    /\ \E k \in 1..Len(r_loaded.sources) :
          /\ Configured[k].type = TYPE_GBPDISTRO
          /\ Configured[k].tags # <<>>
          /\ r_loaded.sources[k].source.type = TYPE_YAML
          /\ r_loaded.sources[k].source.tags = Configured[k].tags

\* C24: while install_source with a declared md5sum is at the extraction or
\* about to run the install script, the file it fetched last, which is the
\* one it extracts, is there and has the declared digest.
C24_ScriptRunsOnVerifiedArtifact ==
    i_pc \in {"extract", "execute"} /\ i_resolved.tarball_md5sum # NoMd5 =>
        /\ \E x \in i_files : x.name = i_filename
        /\ \A x \in i_files : x.name = i_filename => x.digest = i_resolved.tarball_md5sum
        /\ \/ i_filename = url_filename(i_resolved.tarball)
           \/ /\ i_resolved.alternate_tarball # NoUrl
              /\ i_filename = url_filename(i_resolved.alternate_tarball)

\* C24 happens: the install script is about to run on the alternate tarball,
\* fetched after the primary one had another digest than the declared one.
C24_Witness ==
    /\ i_pc = "execute"
    /\ i_resolved.tarball_md5sum = "m1"
    /\ i_hash1 = "m2"
    /\ i_resolved.alternate_tarball # NoUrl
    /\ i_filename = url_filename(i_resolved.alternate_tarball)
    /\ \E x \in i_files : x.name = i_filename /\ x.digest = "m1"

\* A line of a sources list file that is invalid: neither empty nor a
\* comment, and with fewer than two tokens, a type that is not known, or a
\* URL without scheme, host or path.
InvalidLine(l) ==
    LET t == strip(l)
    IN  /\ t # <<>>
        /\ ~startswith_hash(t[1])
        /\ \/ Len(t) < 2
           \/ t[1] \notin VALID_TYPES
           \/ urlparse(t[2]).scheme = ""
           \/ urlparse(t[2]).netloc = ""
           \/ urlparse(t[2]).path \in {"", "/"}

HasInvalidLine(dir) ==
    /\ dir.exists
    /\ \E f \in FileNames : \E k \in 1..Len(dir.files[f]) : InvalidLine(dir.files[f][k])

\* C25: an update_sources_list that began on a sources list with an invalid
\* line is parsing the list or has raised InvalidData, whatever is appended
\* to the list meanwhile, with no source fetched, no handler called and
\* no cache file written, and the cache entries and the index are what they
\* were when it began.
C25_InvalidListLeavesCacheAsItWas ==
    u_runs >= 1 /\ u_pc # "idle" /\ HasInvalidLine(u_pre.list) =>
        /\ u_pc \in {"parse", "raised"}
        /\ u_pc = "raised" => u_exc = "InvalidData" /\ u_sources = <<>>
        /\ u_outcomes = <<>>
        /\ u_events = <<>>
        /\ u_retval = <<>>
        /\ cache_files = u_pre.files
        /\ cache_index = u_pre.index

\* C25 happens: a first run filled the cache, an invalid line was added to
\* the sources list, and the second run raised and left the cache as it was.
C25_Witness ==
    /\ u_runs = 2
    /\ u_pc = "raised"
    /\ HasInvalidLine(u_pre.list)
    /\ cache_index.exists
    /\ Len(cache_index.text) = 2
    /\ \E k \in CacheKeys : cache_files[k].exists /\ cache_files[k].text # EmptyText
    /\ cache_files = u_pre.files
    /\ cache_index = u_pre.index

\* C26: a get_depends that returned leaves the rosdep_args it was given as
\* they were, the list under 'depends' included.
C26_GetDependsLeavesItsArgument ==
    x_call.op = "get_depends" /\ x_call.exc = "None" => x_args = x_call.rosdep_args

=============================================================================
